---- MODULE Spec2Model ----
(***************************************************************************)
(* Fusion runtime, subgraph execution plane                                *)
(* (packages/fusion/runtime/src/utils.ts).                                 *)
(*                                                                         *)
(*   Spec        getOnSubgraphExecute: the lazy per-subgraph executor      *)
(*               cache, transport resolution and the disposable stack.     *)
(*               The runtime is built with an empty hook list, so a        *)
(*               wrapped executor hands the request straight to the        *)
(*               transport executor (utils.ts:232-234).                    *)
(*   SpecPre     wrapExecutorWithHooks: two requests in flight on one      *)
(*               wrapped executor, from the call of executorWithHooks to   *)
(*               the call of the executor.                                 *)
(*   SpecHooks   wrapExecutorWithHooks: one request through the pre-hook,  *)
(*               executor and done-hook phases.                            *)
(*   SpecStream  the stream returned for an async-iterable result with     *)
(*               onNext / onEnd observers (utils.ts:291-327), and its      *)
(*               consumer.                                                 *)
(*   SpecPipeline  SpecHooks followed by SpecStream.                       *)
(*   SpecGetter  createTransportExecutorFactoryGetter: one call of         *)
(*               getTransport(kind), step by step (utils.ts:51-91).        *)
(*   SpecNames   the executor cache of Spec, called under differently      *)
(*               written names of one subgraph.                            *)
(*   SpecCompare compareSubgraphNames and compareSchemas                   *)
(*               (utils.ts:381-407) applied to bounded inputs.             *)
(*   SpecMerger  StitchingMerger.getUnifiedSchema: the SDL of each         *)
(*               federated source, the subschemas and the source map.      *)
(*   SpecSwap    the getters handed to transports and hooks                *)
(*               (utils.ts:93-109, 241-247) read while the supergraph is   *)
(*               swapped.                                                  *)
(*   SpecReload  StitchingMerger.replaceFederationSDLWithStitchingSDL      *)
(*               called again as the SDL of a source changes or stays.     *)
(*   SpecOtel    useOpenTelemetry: the execution span and the resolver     *)
(*               spans of one operation.                                   *)
(*                                                                         *)
(* Promises are modelled by their settlement: the step in which a promise  *)
(* settles is the step that runs the continuation registered on it.        *)
(* Between two such steps any other request may take steps (single event   *)
(* loop, cooperative suspension).                                          *)
(***************************************************************************)
EXTENDS Integers, Sequences, FiniteSets, TLC

\* ------------------------------------------------------------------ bounds
MaxCalls == 3

MaxHooks == 2

MaxItems == 2

MaxExtraCalls == 1

MaxNameLen == 3

MaxSources == 2

MaxSwaps == 2

MaxRetries == 1

MaxSdl == 2

MaxMerges == 2

MaxFields == 2

\* ------------------------------------------------------------ JS values
\* `undefined` where a transport module is expected
Undefined == [present |-> FALSE, top |-> "missing", hasDefault |-> FALSE, def |-> "missing"]

Subgraphs == {"a", "b"}

Kinds == {"http", "ghost"}

\* '' : the kind getTransportExecutor uses when the subgraph has no transport
\* entry.  No inline source has a key '' and no package
\* "@graphql-mesh/transport-" exists.
NoKind == ""

\* Subgraph names as character sequences: aB, a_b and A-B.
Names == {<<"a", "B">>, <<"a", "_", "b">>, <<"A", "-", "B">>}

\* The one name under which the supergraph lists the subgraph.
MergerName == <<"a", "B">>

\* What a member "getSubgraphExecutor" can be: absent, a non-callable value,
\* or a factory function.
FnVals == {"missing", "notfn", "fn"}

\* A resolved transport module: its top-level getSubgraphExecutor, whether it
\* has a "default" member, and default.getSubgraphExecutor.
Modules == [present : {TRUE}, top : FnVals, hasDefault : BOOLEAN, def : FnVals]

NamedExport == [present |-> TRUE, top |-> "fn", hasDefault |-> FALSE, def |-> "missing"]

DefaultExport == [present |-> TRUE, top |-> "missing", hasDefault |-> TRUE, def |-> "fn"]

NoExport == [present |-> TRUE, top |-> "missing", hasDefault |-> FALSE, def |-> "missing"]

\* The `transports` option: undefined, an inline mapping, or an inline function.
\* `at` is what the mapping holds / the function returns for each kind.
InlineHttp == [form |-> "map", at |-> [k \in Kinds |-> IF k = "http" THEN NamedExport ELSE Undefined]]

InlineFn == [form |-> "function", at |-> [k \in Kinds |-> IF k = "http" THEN DefaultExport ELSE Undefined]]

NoTransports == [form |-> "undefined", at |-> [k \in Kinds |-> Undefined]]

TransportsOptions == {InlineHttp, InlineFn, NoTransports}

\* What `import("@graphql-mesh/transport-" + kind)` yields: a module, or Undefined
\* when the import rejects.
ImportOptions == { [k \in Kinds |-> Undefined],
                   [k \in Kinds |-> IF k = "ghost" THEN DefaultExport ELSE Undefined],
                   [k \in Kinds |-> IF k = "ghost" THEN NoExport ELSE NamedExport] }

VARIABLES
  \* construction inputs of getOnSubgraphExecute
  transports, importable, hasLogger, transportEntryMap,
  \* runtime state
  subgraphExecutorMap, transportExecutorStack,
  \* one record per call of onSubgraphExecute
  pc, sub, ctxKind, created, fwd, result, retried,
  \* observation counters
  getterCalls, factoryCalls, lazyCreated

lazyVars == <<transports, importable, hasLogger, transportEntryMap,
              subgraphExecutorMap, transportExecutorStack,
              pc, sub, ctxKind, created, fwd, result, retried,
              getterCalls, factoryCalls, lazyCreated>>

Calls == 1..MaxCalls

\* wrapExecutorWithHooks: the hook list, the `executor` variable its closure
\* shares between all requests, and one record per call of executorWithHooks.
VARIABLES
  numHooks, executor,
  hpc, hidx, executionRequest, infoSet, payload, pendingDone,
  lastSetExecutor, lastSetRequest,
  onSubgraphExecuteDoneHooks, preState, execState, doneState, called,
  currentResult, payloadResult, pendingRet, executeDoneResults, returned

hookVars == <<numHooks, executor,
              hpc, hidx, executionRequest, infoSet, payload, pendingDone,
              lastSetExecutor, lastSetRequest,
              onSubgraphExecuteDoneHooks, preState, execState, doneState, called,
              currentResult, payloadResult, pendingRet, executeDoneResults, returned>>

\* The stream returned for an async-iterable result that has observers: the
\* underlying iterator, the mapAsyncIterator wrapper and its consumer.
VARIABLES
  memoOnEnd,
  srcHasReturn, srcPos, srcStatus,
  wpc, widx, endRuns, endPhase, item, itemPayload,
  onNextHooks, onEndHooks,
  delivered, consumerSaw, extraCalls, onEndLog

streamVars == <<memoOnEnd, srcHasReturn, srcPos, srcStatus,
                wpc, widx, endRuns, endPhase, item, itemPayload,
                onNextHooks, onEndHooks,
                delivered, consumerSaw, extraCalls, onEndLog>>

\* One call of getTransport(kind), step by step: what the inline source gave,
\* the calls made to an inline function registry, the dynamic imports
\* attempted, and the outcome.
VARIABLES
  gpc, gKind, gInline, gRegistryCalls, gImports, gOut

getterVars == <<gpc, gKind, gInline, gRegistryCalls, gImports, gOut>>

\* One call of a comparison helper: its two arguments and what it returned.
VARIABLES
  cmpPc, cmpA, cmpB, cmpOut

compareVars == <<cmpPc, cmpA, cmpB, cmpOut>>

\* StitchingMerger.getUnifiedSchema: the rawSources passed in (fields batch,
\* schema, merge of each), the position of each source's map callback, the
\* calls made to each source's executor, where each rewritten schema came
\* from, the rejections in the order they happened, the position and outcome
\* of getUnifiedSchema itself, the calls of stitchSchemas, the subschemaMap of
\* the unified schema and the answers of sourceMap.get.
VARIABLES
  rawSources, batchGiven, batch, schema, merge, mpc, executorCalls, sdlFrom,
  rejections, upc, unifiedError, stitchCalls, subschemaMap, sourceMapGot

mergerVars == <<rawSources, batchGiven, batch, schema, merge, mpc, executorCalls,
                sdlFrom, rejections, upc, unifiedError, stitchCalls, subschemaMap,
                sourceMapGot>>

\* The supergraph as it is now (transportEntryMap, in the variables above, and
\* the schemas getSubgraphSchema returns follow it), and the last values a
\* transport factory or a pre-hook read from the getters of its context.
VARIABLES
  supergraphVersion, lastRead

swapVars == <<supergraphVersion, lastRead>>

\* Successive merges of the StitchingMerger: the SDL each federated subgraph
\* serves now, the SDL from which the schema in the store proxy
\* `${name}_stitching` was translated, the SDL from which the schema the last
\* merge used was translated, and how often the subgraph's SDL was
\* translated and merged.
VARIABLES
  sdlNow, storedFrom, rewrittenFrom, translations, merges

reloadVars == <<sdlNow, storedFrom, rewrittenFrom, translations, merges>>

\* useOpenTelemetry: the plugin's options, the position of one execution,
\* the execution span, whether the context carries it, and for each field
\* the position of its resolver and its resolver span.
VARIABLES
  options, opc, executionSpan, contextSpan, rpc, resolverSpan

otelVars == <<options, opc, executionSpan, contextSpan, rpc, resolverSpan>>

extraVars == <<swapVars, reloadVars, otelVars>>

otherVars == <<compareVars, mergerVars, extraVars>>

pipelineVars == <<hookVars, streamVars, getterVars, otherVars>>

\* ------------------------------------------------ transport factory getter
Ok(v) == [ok |-> TRUE, val |-> v]

Err(e) == [ok |-> FALSE, val |-> e]

\* 'default' in transport ? transport.default.getSubgraphExecutor
\*                        : transport.getSubgraphExecutor
pickGetSubgraphExecutor(transport) ==
  IF transport.hasDefault THEN transport.def ELSE transport.top

\* typeof transports === 'function' ? await transports(kind) : await transports?.[kind]
inlineTransport(tr, kind) ==
  IF tr.form = "undefined" \/ kind \notin DOMAIN tr.at THEN Undefined ELSE tr.at[kind]

\* await import(`@graphql-mesh/transport-${kind}`), Undefined when it fails
importOf(imp, kind) ==
  IF kind \in DOMAIN imp THEN imp[kind] ELSE Undefined

\* if (transport): the inline source gave a transport
inlineNeverYields(transport) == FALSE

inlineYields(transport) == transport # Undefined

\* getTransport(kind): the value the returned promise fulfils with (Ok) or the
\* error it rejects with (Err).
getTransport(tr, imp, logger, kind) ==
  LET transport == inlineTransport(tr, kind) IN
  IF inlineYields(transport)
    THEN Ok(pickGetSubgraphExecutor(transport))
    ELSE IF ~logger
      THEN Err("TypeError")              \* logger.child on undefined
      ELSE IF importOf(imp, kind) = Undefined
        THEN Err("NoTransportFound")
        ELSE LET f == pickGetSubgraphExecutor(importOf(imp, kind)) IN
             IF f = "missing" THEN Err("NoExport")
             ELSE IF f # "fn" THEN Err("NotAFunction")
             ELSE Ok(f)

\* transportContext.transportEntry?.kind || ''
kindOf(s) ==
  IF s \in DOMAIN transportEntryMap THEN transportEntryMap[s] ELSE NoKind

\* isDisposable(executor)
isDisposable(e) == e = "disposable"

\* if (isDisposable(executor)) transportExecutorStack.use(executor)
NoStackUse(stack, c, e) == stack

StackUse(stack, c, e) ==
  IF isDisposable(e) THEN Append(stack, c) ELSE stack

\* ------------------------------------------------------------ lazy cache
\* Entries of subgraphExecutorMap: no entry, the lazyExecutor closure, or the
\* hook-wrapped form of the transport executor that call c's factory call made.
Absent == [tag |-> "absent", of |-> 0]

Lazy == [tag |-> "lazy", of |-> 0]

Wrapped(c) == [tag |-> "wrapped", of |-> c]

\* A request ends with an error thrown / rejected to its caller.  Nothing on
\* the rejection path touches subgraphExecutorMap.
RejectCallAndClear(c, e) ==
  /\ pc' = [pc EXCEPT ![c] = "failed"]
  /\ result' = [result EXCEPT ![c] = <<"error", e>>]
  /\ subgraphExecutorMap' = [subgraphExecutorMap EXCEPT ![sub[c]] = Absent]

RejectCall(c, e) ==
  /\ pc' = [pc EXCEPT ![c] = "failed"]
  /\ result' = [result EXCEPT ![c] = <<"error", e>>]
  /\ UNCHANGED subgraphExecutorMap

FailedFor(s) == {d \in Calls : pc[d] = "failed" /\ sub[d] = s}

\* The executor that onSubgraphExecute calls runs the initialisation when the
\* cache had no entry (it is the lazyExecutor just created) or held the
\* lazyExecutor an earlier call created; a wrapped executor does not.
alwaysInitialises(cached) == TRUE

runsInitialisation(cached) == cached \in {Absent, Lazy}

\* subgraphExecutorMap.set(subgraphName, executor) in the synchronous part of
\* onSubgraphExecute, before lazyExecutor is called (utils.ts:186-189).
placeholderDeferred(map, s) == map

placeholderSet(map, s) == [map EXCEPT ![s] = Lazy]

\* onSubgraphExecute(subgraphName, executionRequest), up to its first suspension.
onSubgraphExecute(c, s) ==
  /\ pc[c] = "idle"
  /\ \A d \in Calls : d < c => pc[d] # "idle"
  /\ sub' = [sub EXCEPT ![c] = s]
  /\ retried' = [retried EXCEPT ![c] = FailedFor(s) # {}]
  /\ LET cached == subgraphExecutorMap[s] IN
     IF runsInitialisation(cached)
       THEN \* cache miss installs lazyExecutor; lazyExecutor calls
            \* getTransportExecutor, which reads the kind (utils.ts:98) and
            \* calls the factory getter with it
            /\ ctxKind' = [ctxKind EXCEPT ![c] = kindOf(s)]
            /\ subgraphExecutorMap' = placeholderSet(subgraphExecutorMap, s)
            /\ lazyCreated' = [lazyCreated EXCEPT ![s] = @ + (IF cached = Absent THEN 1 ELSE 0)]
            /\ getterCalls' = [getterCalls EXCEPT ![s] = @ + 1]
            /\ pc' = [pc EXCEPT ![c] = "getter"]
            /\ UNCHANGED fwd
       ELSE \* cached wrapped executor
            /\ pc' = [pc EXCEPT ![c] = "exec"]
            /\ fwd' = [fwd EXCEPT ![c] = cached.of]
            /\ UNCHANGED <<ctxKind, subgraphExecutorMap, lazyCreated, getterCalls>>
  /\ UNCHANGED <<transports, importable, hasLogger, transportEntryMap,
                 transportExecutorStack, created, result, factoryCalls>>
  /\ UNCHANGED pipelineVars

\* transportExecutorFactoryGetter(kind) settles; on success the factory is
\* called with the transport context.
getterSettles(c) ==
  /\ pc[c] = "getter"
  /\ LET r == getTransport(transports, importable, hasLogger, ctxKind[c]) IN
     IF ~r.ok THEN
          /\ RejectCall(c, r.val)
          /\ UNCHANGED factoryCalls
     ELSE IF r.val # "fn" THEN
          \* executor(transportContext) on a non-callable
          /\ RejectCall(c, "TypeError")
          /\ UNCHANGED factoryCalls
     ELSE /\ pc' = [pc EXCEPT ![c] = "factory"]
          /\ factoryCalls' = [factoryCalls EXCEPT ![sub[c]] = @ + 1]
          /\ UNCHANGED <<result, subgraphExecutorMap>>
  /\ UNCHANGED <<transports, importable, hasLogger, transportEntryMap, ctxKind,
                 transportExecutorStack, sub, created, fwd, retried,
                 getterCalls, lazyCreated>>
  /\ UNCHANGED pipelineVars

\* The factory returns (or its promise fulfils with) a transport executor.
factoryReturns(c) ==
  /\ pc[c] = "factory"
  /\ \E e \in {"plain", "disposable"} :
       /\ created' = [created EXCEPT ![c] = e]
       /\ transportExecutorStack' = StackUse(transportExecutorStack, c, e)
  /\ pc' = [pc EXCEPT ![c] = "wrap"]
  /\ UNCHANGED <<transports, importable, hasLogger, transportEntryMap, ctxKind,
                 subgraphExecutorMap, sub, fwd, result, retried,
                 getterCalls, factoryCalls, lazyCreated>>
  /\ UNCHANGED pipelineVars

\* The factory throws or its promise rejects.
factoryThrows(c) ==
  /\ pc[c] = "factory"
  /\ RejectCall(c, "FactoryError")
  /\ UNCHANGED <<transports, importable, hasLogger, transportEntryMap, ctxKind,
                 transportExecutorStack, sub, created, fwd, retried,
                 getterCalls, factoryCalls, lazyCreated>>
  /\ UNCHANGED pipelineVars

\* return executor(subgraphExecReq): the executor called is the one this
\* continuation has just wrapped, not what the cache held before.
cachedTarget(c) == subgraphExecutorMap[sub[c]].of

forwardTarget(c) == c

\* executor_ => { executor = wrapExecutorWithHooks(..); map.set(..); return executor(req) }
wrapAndForward(c) ==
  /\ pc[c] = "wrap"
  /\ subgraphExecutorMap' = [subgraphExecutorMap EXCEPT ![sub[c]] = Wrapped(c)]
  /\ fwd' = [fwd EXCEPT ![c] = forwardTarget(c)]
  /\ pc' = [pc EXCEPT ![c] = "exec"]
  /\ UNCHANGED <<transports, importable, hasLogger, transportEntryMap, ctxKind,
                 transportExecutorStack, sub, created, result, retried,
                 getterCalls, factoryCalls, lazyCreated>>
  /\ UNCHANGED pipelineVars

\* The transport executor answers the request it was given.
executorReturns(c) ==
  /\ pc[c] = "exec"
  /\ pc' = [pc EXCEPT ![c] = "done"]
  /\ result' = [result EXCEPT ![c] = <<"data", fwd[c], c>>]
  /\ UNCHANGED <<transports, importable, hasLogger, transportEntryMap, ctxKind,
                 subgraphExecutorMap, transportExecutorStack, sub, created, fwd,
                 retried, getterCalls, factoryCalls, lazyCreated>>
  /\ UNCHANGED pipelineVars

\* ------------------------------------------------- wrapExecutorWithHooks
\* Two requests in flight on the same wrapped executor.
Requests == {"A", "B"}

HookIds == 1..MaxHooks

\* Executors: the transport executor given to wrapExecutorWithHooks, and the
\* executor that hook i passes to setExecutor while it handles request r.
TransportExecutor == [by |-> "-", at |-> 0]

Fake(r, i) == [by |-> r, at |-> i]

NoExecutor == [by |-> "?", at |-> 0]

\* Execution requests: the one request r came in with, and the one that hook
\* i passes to setExecutionRequest while it handles request r.
Original(r) == [of |-> r, by |-> 0]

Replaced(r, i) == [of |-> r, by |-> i]

NoRequest == [of |-> "?", by |-> 0]

\* Results: what `by` answered to request value `req`; setBy is the done
\* hook whose setResult installed it (0: the executor's own result).
NoResult == [kind |-> "none", by |-> NoExecutor, req |-> NoRequest, setBy |-> 0]

ResultOf(kind, e, q) == [kind |-> kind, by |-> e, req |-> q, setBy |-> 0]

\* What a done hook returns: nothing, or an object with optional onNext / onEnd.
\* An onNext observer either only looks at the item ("watch") or replaces it
\* through setResult ("rewrite").
Nothing == [any |-> FALSE, onNext |-> "none", onEnd |-> FALSE]

DoneRets == {Nothing} \cup [any : {TRUE}, onNext : {"none", "watch", "rewrite"}, onEnd : BOOLEAN]

\* iterateAsync(iterable, callback, results): the callback is applied to the
\* elements one after the other, each after the previous one's promise has
\* fulfilled; a truthy outcome is pushed on results.
iterateAsyncNext(i) == i + 1

iterateAsyncHasNext(i, n) == i < n

\* The payload a pre-hook is called with (utils.ts:240-260): the current values
\* of the executionRequest and executor variables.
stalePayloadOf(r) == [executor |-> TransportExecutor, executionRequest |-> Original(r)]

payloadOf(r) == [executor |-> executor, executionRequest |-> executionRequest[r]]

NoPayload == [executor |-> NoExecutor, executionRequest |-> NoRequest]

\* A request ends with an error thrown / rejected to the caller of
\* executorWithHooks; nothing else runs for it.
throwAndGoOn(r, e) ==
  /\ hpc' = [hpc EXCEPT ![r] = "hooked"]
  /\ returned' = [returned EXCEPT ![r] = [kind |-> "error", res |-> NoResult, err |-> e]]

throwTo(r, e) ==
  /\ hpc' = [hpc EXCEPT ![r] = "thrown"]
  /\ returned' = [returned EXCEPT ![r] = [kind |-> "error", res |-> NoResult, err |-> e]]

\* executor(executionRequest): the executor variable is read at the call.
invocation(r) == [executor |-> executor, request |-> executionRequest[r]]

NoInvocation == [executor |-> NoExecutor, request |-> NoRequest]

\* executionRequest.info.executionRequest = executionRequest, the first
\* statements of executorWithHooks (utils.ts:221-222), ahead of the
\* short-circuit for an empty hook list.
infoAttachedWithHooksOnly(info, r) == [info EXCEPT ![r] = numHooks > 0]

infoAttached(info, r) == [info EXCEPT ![r] = TRUE]

\* executorWithHooks(executionRequest), up to its first suspension
\* (utils.ts:220-262).
executorWithHooks(r) ==
  /\ hpc[r] = "idle"
  /\ infoSet' = infoAttached(infoSet, r)
  /\ IF numHooks = 0
       THEN /\ called' = [called EXCEPT ![r] = invocation(r)]
            /\ execState' = [execState EXCEPT ![r] = "running"]
            /\ hpc' = [hpc EXCEPT ![r] = "exec"]
            /\ UNCHANGED <<hidx, payload, preState>>
       ELSE /\ hidx' = [hidx EXCEPT ![r] = 1]
            /\ payload' = [payload EXCEPT ![r] = payloadOf(r)]
            /\ preState' = [preState EXCEPT ![r][1] = "running"]
            /\ hpc' = [hpc EXCEPT ![r] = "inhook"]
            /\ UNCHANGED <<called, execState>>
  /\ UNCHANGED <<numHooks, executor, executionRequest, pendingDone,
                 lastSetExecutor, lastSetRequest, onSubgraphExecuteDoneHooks,
                 doneState, currentResult, payloadResult, pendingRet,
                 executeDoneResults, returned>>
  /\ UNCHANGED <<lazyVars, streamVars, getterVars, otherVars>>

\* The running pre-hook calls the mutators it wants and returns (or its
\* promise fulfils), with or without a done hook; its payload is not used
\* again.  setExecutor and
\* setExecutionRequest log through execReqLogger before they assign
\* (utils.ts:249-257); without a logger that call throws out of the hook.
hookReturns(r) ==
  /\ hpc[r] = "inhook"
  /\ \E se \in BOOLEAN, sr \in BOOLEAN, rd \in BOOLEAN :
       IF (se \/ sr) /\ ~hasLogger
         THEN /\ throwTo(r, "TypeError")
              /\ preState' = [preState EXCEPT ![r][hidx[r]] = "threw"]
              /\ UNCHANGED <<executor, executionRequest, lastSetExecutor,
                             lastSetRequest, pendingDone>>
         ELSE /\ executor' = IF se THEN Fake(r, hidx[r]) ELSE executor
              /\ lastSetExecutor' = [lastSetExecutor EXCEPT ![r] =
                                       IF se THEN Fake(r, hidx[r]) ELSE @]
              /\ executionRequest' = [executionRequest EXCEPT ![r] =
                                        IF sr THEN Replaced(r, hidx[r]) ELSE @]
              /\ lastSetRequest' = [lastSetRequest EXCEPT ![r] =
                                      IF sr THEN Replaced(r, hidx[r]) ELSE @]
              /\ pendingDone' = [pendingDone EXCEPT ![r] = rd]
              /\ preState' = [preState EXCEPT ![r][hidx[r]] = "finished"]
              /\ hpc' = [hpc EXCEPT ![r] = "hooked"]
              /\ UNCHANGED returned
  /\ payload' = [payload EXCEPT ![r] = NoPayload]
  /\ UNCHANGED <<numHooks, hidx, infoSet, onSubgraphExecuteDoneHooks,
                 execState, doneState, called, currentResult, payloadResult,
                 pendingRet, executeDoneResults>>
  /\ UNCHANGED <<lazyVars, streamVars, getterVars, otherVars>>

\* The running pre-hook throws, or its promise rejects.
hookThrows(r) ==
  /\ hpc[r] = "inhook"
  /\ throwTo(r, "HookError")
  /\ preState' = [preState EXCEPT ![r][hidx[r]] = "threw"]
  /\ payload' = [payload EXCEPT ![r] = NoPayload]
  /\ UNCHANGED <<numHooks, executor, hidx, executionRequest, infoSet,
                 pendingDone, lastSetExecutor, lastSetRequest,
                 onSubgraphExecuteDoneHooks, execState, doneState, called,
                 currentResult, payloadResult, pendingRet, executeDoneResults>>
  /\ UNCHANGED <<lazyVars, streamVars, getterVars, otherVars>>

\* The pre-hooks are finished when iterateAsync has run the last of them.
executorCalledAnyTime(r) == TRUE

preHooksFinished(r) == ~iterateAsyncHasNext(hidx[r], numHooks)

\* iterateAsync goes on after a pre-hook: its done hook, if any, is pushed;
\* the next pre-hook is called, or, after the last one, the executor is
\* called with the current request (utils.ts:263-267).
preNext(r) ==
  /\ hpc[r] = "hooked"
  /\ onSubgraphExecuteDoneHooks' =
       [onSubgraphExecuteDoneHooks EXCEPT ![r] =
          IF pendingDone[r] THEN Append(@, hidx[r]) ELSE @]
  /\ doneState' = [doneState EXCEPT ![r][hidx[r]] =
                     IF pendingDone[r] THEN "queued" ELSE @]
  /\ pendingDone' = [pendingDone EXCEPT ![r] = FALSE]
  /\ \/ /\ iterateAsyncHasNext(hidx[r], numHooks)
        /\ hidx' = [hidx EXCEPT ![r] = iterateAsyncNext(@)]
        /\ payload' = [payload EXCEPT ![r] = payloadOf(r)]
        /\ preState' = [preState EXCEPT ![r][iterateAsyncNext(hidx[r])] = "running"]
        /\ hpc' = [hpc EXCEPT ![r] = "inhook"]
        /\ UNCHANGED <<called, execState>>
     \/ /\ preHooksFinished(r)
        /\ called' = [called EXCEPT ![r] = invocation(r)]
        /\ execState' = [execState EXCEPT ![r] = "running"]
        /\ hpc' = [hpc EXCEPT ![r] = "exec"]
        /\ UNCHANGED <<hidx, preState, payload>>
  /\ UNCHANGED <<numHooks, executor, executionRequest, infoSet,
                 lastSetExecutor, lastSetRequest, currentResult, payloadResult,
                 pendingRet, executeDoneResults, returned>>
  /\ UNCHANGED <<lazyVars, streamVars, getterVars, otherVars>>

\* --------------------------------------------- executor and done hooks
RECURSIVE hookIdsOf(_)
hookIdsOf(rets) ==
  IF rets = <<>> THEN <<>> ELSE <<Head(rets).hook>> \o hookIdsOf(Tail(rets))

\* for (const executeDoneResult of executeDoneResults) { if (.onNext) push; if (.onEnd) push }
observesNext(ret) == ret.onNext # "none"

observesEnd(ret) == ret.onEnd

collectOnNext(rets) == SelectSeq(rets, observesNext)

collectOnEnd(rets) == hookIdsOf(SelectSeq(rets, observesEnd))

\* What executorWithHooks returns once the done hooks have run
\* (utils.ts:282-327): the result itself, the stream itself, or the stream
\* wrapped by mapAsyncIterator.
wrapsEveryStream(res, rets) ==
  IF res.kind # "stream" THEN "single" ELSE "wrapped"

finalKind(res, rets) ==
  IF res.kind # "stream" THEN "single"
  ELSE IF rets = <<>> THEN "stream"
  ELSE IF collectOnNext(rets) = <<>> /\ collectOnEnd(rets) = <<>> THEN "stream"
  ELSE "wrapped"

\* const asyncIterator = currentResult[Symbol.asyncIterator](); the wrapper
\* starts with nothing pulled.
openStream(r, rets) ==
  /\ onNextHooks' = [onNextHooks EXCEPT ![r] = collectOnNext(rets)]
  /\ onEndHooks' = [onEndHooks EXCEPT ![r] = collectOnEnd(rets)]
  /\ srcStatus' = [srcStatus EXCEPT ![r] = "open"]
  /\ wpc' = [wpc EXCEPT ![r] = "idle"]
  /\ \E b \in BOOLEAN : srcHasReturn' = [srcHasReturn EXCEPT ![r] = b]
  /\ UNCHANGED <<memoOnEnd, srcPos, widx, endRuns, endPhase, item, itemPayload,
                 delivered, consumerSaw, extraCalls, onEndLog>>

\* What an executor fulfils with: a result with data, a result with errors
\* (an error of the transport reported in-band), or a stream.
ResultKinds == {"single", "errors", "stream"}

\* The executor returns (or its promise fulfils with) a result or a stream.
\* Without done hooks that value is what the caller gets (utils.ts:233, 265);
\* otherwise the first done hook is called with it.
executorSettles(r) ==
  /\ hpc[r] = "exec"
  /\ execState' = [execState EXCEPT ![r] = "settled"]
  /\ \E kind \in ResultKinds :
       LET res == ResultOf(kind, called[r].executor, called[r].request) IN
       IF onSubgraphExecuteDoneHooks[r] = <<>>
         THEN /\ returned' = [returned EXCEPT ![r] = [kind |-> kind, res |-> res, err |-> ""]]
              /\ hpc' = [hpc EXCEPT ![r] = "returned"]
              /\ UNCHANGED <<currentResult, payloadResult, hidx, doneState>>
         ELSE /\ currentResult' = [currentResult EXCEPT ![r] = res]
              /\ payloadResult' = [payloadResult EXCEPT ![r] = res]
              /\ hidx' = [hidx EXCEPT ![r] = 1]
              /\ doneState' = [doneState EXCEPT ![r][onSubgraphExecuteDoneHooks[r][1]] = "running"]
              /\ hpc' = [hpc EXCEPT ![r] = "indone"]
              /\ UNCHANGED returned
  /\ UNCHANGED <<numHooks, executor, executionRequest, infoSet, payload,
                 pendingDone, lastSetExecutor, lastSetRequest,
                 onSubgraphExecuteDoneHooks, preState, called, pendingRet,
                 executeDoneResults>>
  /\ UNCHANGED <<lazyVars, streamVars, getterVars, otherVars>>

\* The executor throws, or its promise rejects.
executorThrows(r) ==
  /\ hpc[r] = "exec"
  /\ execState' = [execState EXCEPT ![r] = "threw"]
  /\ throwTo(r, "ExecutorError")
  /\ UNCHANGED <<numHooks, executor, hidx, executionRequest, infoSet, payload,
                 pendingDone, lastSetExecutor, lastSetRequest,
                 onSubgraphExecuteDoneHooks, preState, doneState, called,
                 currentResult, payloadResult, pendingRet, executeDoneResults>>
  /\ UNCHANGED <<lazyVars, streamVars, getterVars, otherVars>>

runningDone(r) == onSubgraphExecuteDoneHooks[r][hidx[r]]

\* The running done hook calls setResult if it wants and returns nothing or
\* its observers.  setResult logs through execReqLogger before it assigns
\* (utils.ts:275-278).
doneReturns(r) ==
  /\ hpc[r] = "indone"
  /\ \E set \in {"keep", "single", "stream"}, ret \in DoneRets :
       IF set # "keep" /\ ~hasLogger
         THEN /\ throwTo(r, "TypeError")
              /\ doneState' = [doneState EXCEPT ![r][runningDone(r)] = "threw"]
              /\ UNCHANGED <<currentResult, pendingRet>>
         ELSE /\ currentResult' = [currentResult EXCEPT ![r] =
                   IF set = "keep" THEN @
                   ELSE [kind |-> set, by |-> payloadResult[r].by,
                         req |-> payloadResult[r].req, setBy |-> runningDone(r)]]
              /\ pendingRet' = [pendingRet EXCEPT ![r] = ret]
              /\ doneState' = [doneState EXCEPT ![r][runningDone(r)] = "finished"]
              /\ hpc' = [hpc EXCEPT ![r] = "doned"]
              /\ UNCHANGED returned
  /\ UNCHANGED <<numHooks, executor, hidx, executionRequest, infoSet, payload,
                 pendingDone, lastSetExecutor, lastSetRequest,
                 onSubgraphExecuteDoneHooks, preState, execState, called,
                 payloadResult, executeDoneResults>>
  /\ UNCHANGED <<lazyVars, streamVars, getterVars, otherVars>>

\* The running done hook throws, or its promise rejects.
doneThrows(r) ==
  /\ hpc[r] = "indone"
  /\ doneState' = [doneState EXCEPT ![r][runningDone(r)] = "threw"]
  /\ throwTo(r, "HookError")
  /\ UNCHANGED <<numHooks, executor, hidx, executionRequest, infoSet, payload,
                 pendingDone, lastSetExecutor, lastSetRequest,
                 onSubgraphExecuteDoneHooks, preState, execState, called,
                 currentResult, payloadResult, pendingRet, executeDoneResults>>
  /\ UNCHANGED <<lazyVars, streamVars, getterVars, otherVars>>

\* result: currentResult in the payload of a done hook (utils.ts:274): the
\* variable is read when the hook is called.
resultFirstGiven(r) == payloadResult[r]

resultGiven(r) == currentResult[r]

\* iterateAsync goes on after a done hook: what it returned, if truthy, is
\* pushed; the next done hook is called with the current result, or, after the
\* last one, executorWithHooks returns.
postNext(r) ==
  /\ hpc[r] = "doned"
  /\ LET rets == IF pendingRet[r].any
                   THEN Append(executeDoneResults[r],
                               [hook |-> runningDone(r),
                                onNext |-> pendingRet[r].onNext,
                                onEnd |-> pendingRet[r].onEnd])
                   ELSE executeDoneResults[r]
     IN
     /\ executeDoneResults' = [executeDoneResults EXCEPT ![r] = rets]
     /\ pendingRet' = [pendingRet EXCEPT ![r] = Nothing]
     /\ \/ /\ iterateAsyncHasNext(hidx[r], Len(onSubgraphExecuteDoneHooks[r]))
           /\ hidx' = [hidx EXCEPT ![r] = iterateAsyncNext(@)]
           /\ payloadResult' = [payloadResult EXCEPT ![r] = resultGiven(r)]
           /\ doneState' = [doneState EXCEPT
                              ![r][onSubgraphExecuteDoneHooks[r][iterateAsyncNext(hidx[r])]] = "running"]
           /\ hpc' = [hpc EXCEPT ![r] = "indone"]
           /\ UNCHANGED <<returned, streamVars>>
        \/ /\ ~iterateAsyncHasNext(hidx[r], Len(onSubgraphExecuteDoneHooks[r]))
           /\ returned' = [returned EXCEPT ![r] =
                             [kind |-> finalKind(currentResult[r], rets),
                              res |-> currentResult[r], err |-> ""]]
           /\ hpc' = [hpc EXCEPT ![r] = "returned"]
           /\ IF finalKind(currentResult[r], rets) = "wrapped"
                THEN openStream(r, rets)
                ELSE UNCHANGED streamVars
           /\ UNCHANGED <<hidx, payloadResult, doneState>>
  /\ UNCHANGED <<numHooks, executor, executionRequest, infoSet, payload,
                 pendingDone, lastSetExecutor, lastSetRequest,
                 onSubgraphExecuteDoneHooks, preState, execState, called,
                 currentResult>>
  /\ UNCHANGED <<lazyVars, getterVars, otherVars>>

\* ------------------------------------------------------ wrapped stream
\* mapAsyncIterator(asyncIterator, onNext, undefined, onEnd) of
\* @graphql-tools/utils, as called at utils.ts:308-327:
\*   next()    calls asyncIterator.next(); a yielded value goes through the
\*             onNext callback and is then handed to the consumer; a `done`
\*             goes through the onEnd callback; a rejection has no handler
\*             (the third argument is undefined) and reaches the consumer
\*             as it is.
\*   return()  calls asyncIterator.return() when there is one and maps its
\*             `done` like next() does, then runs the onEnd callback on the
\*             outcome.
\* The releases the dependency range admits differ in one point: whether the
\* wrapper remembers that it has called onEnd (memoOnEnd).

\* The items of the underlying stream are <<1>>, <<2>>, ...; an observer that
\* rewrites an item appends its hook id to what it was given.
sourceItem(n) == <<n>>

rewriteBy(h, it) == Append(it, h)

\* onNext({ result: currentResult, setResult }): the observer is given the
\* item as the earlier observers left it.
originalItem(cur, orig) == orig

observerPayload(cur, orig) == cur

\* The consumer calls next()/return() one at a time; after it has seen the
\* end it makes at most MaxExtraCalls further calls.
canCall(r) ==
  /\ wpc[r] = "idle"
  /\ consumerSaw[r] = "open" \/ extraCalls[r] < MaxExtraCalls

countCall(r) ==
  extraCalls' = [extraCalls EXCEPT ![r] = IF consumerSaw[r] = "open" THEN @ ELSE @ + 1]

\* The consumer is told the outcome of its call.
tell(r, what) ==
  /\ consumerSaw' = [consumerSaw EXCEPT ![r] = IF @ = "open" THEN what ELSE @]
  /\ wpc' = [wpc EXCEPT ![r] = "idle"]

\* onEndHooks.length === 0 ? undefined : iterateAsync(onEndHooks, onEnd => onEnd())
\* runs unless the wrapper remembers an earlier call.
runsOnEnd(r) == onEndHooks[r] # <<>> /\ ~(memoOnEnd /\ endRuns[r] > 0)

startOnEnd(r, phase) ==
  /\ endRuns' = [endRuns EXCEPT ![r] = @ + 1]
  /\ endPhase' = [endPhase EXCEPT ![r] = phase]
  /\ widx' = [widx EXCEPT ![r] = 1]
  /\ onEndLog' = [onEndLog EXCEPT ![r] = Append(@, onEndHooks[r][1])]
  /\ wpc' = [wpc EXCEPT ![r] = "onEnd"]
  /\ UNCHANGED consumerSaw

\* The consumer calls next(): asyncIterator.next() is called.
consumerNext(r) ==
  /\ canCall(r)
  /\ countCall(r)
  /\ wpc' = [wpc EXCEPT ![r] = "next"]
  /\ UNCHANGED <<memoOnEnd, srcHasReturn, srcPos, srcStatus, widx, endRuns,
                 endPhase, item, itemPayload, onNextHooks, onEndHooks,
                 delivered, consumerSaw, onEndLog>>
  /\ UNCHANGED <<lazyVars, hookVars, getterVars, otherVars>>

\* asyncIterator.next() is called by the wrapper's next() only, and is
\* outstanding until the underlying stream answers it.
calledAhead(r) == wpc[r] \in {"next", "onNext"}

nextOutstanding(r) == wpc[r] = "next"

\* The underlying stream yields its next item; the first onNext observer is
\* called with it, or, without observers, the consumer gets it.
srcYields(r) ==
  /\ nextOutstanding(r)
  /\ srcStatus[r] = "open"
  /\ srcPos[r] < MaxItems
  /\ srcPos' = [srcPos EXCEPT ![r] = @ + 1]
  /\ LET it == sourceItem(srcPos[r] + 1) IN
     /\ item' = [item EXCEPT ![r] = it]
     /\ IF onNextHooks[r] = <<>>
          THEN /\ delivered' = [delivered EXCEPT ![r] = Append(@, it)]
               /\ wpc' = [wpc EXCEPT ![r] = "idle"]
               /\ UNCHANGED <<widx, itemPayload>>
          ELSE /\ widx' = [widx EXCEPT ![r] = 1]
               /\ itemPayload' = [itemPayload EXCEPT ![r] = observerPayload(it, it)]
               /\ wpc' = [wpc EXCEPT ![r] = "onNext"]
               /\ UNCHANGED delivered
  /\ UNCHANGED <<memoOnEnd, srcHasReturn, srcStatus, endRuns, endPhase,
                 onNextHooks, onEndHooks, consumerSaw, extraCalls, onEndLog>>
  /\ UNCHANGED <<lazyVars, hookVars, getterVars, otherVars>>

\* The running onNext observer returns; the next one is called with the
\* current item, or, after the last one, the consumer gets the item.  An
\* observer's setResult logs through execReqLogger before it assigns
\* (utils.ts:315-319); when that throws the wrapper closes the underlying
\* stream, if it can, and rejects.
onNextReturns(r) ==
  /\ wpc[r] = "onNext"
  /\ LET h == onNextHooks[r][widx[r]] IN
     IF h.onNext = "rewrite" /\ ~hasLogger
       THEN /\ srcStatus' = [srcStatus EXCEPT ![r] =
                               IF srcHasReturn[r] THEN "returned" ELSE @]
            /\ tell(r, "error")
            /\ UNCHANGED <<item, itemPayload, widx, delivered>>
       ELSE LET it == IF h.onNext = "rewrite"
                        THEN rewriteBy(h.hook, itemPayload[r]) ELSE item[r] IN
            /\ item' = [item EXCEPT ![r] = it]
            /\ IF iterateAsyncHasNext(widx[r], Len(onNextHooks[r]))
                 THEN /\ widx' = [widx EXCEPT ![r] = iterateAsyncNext(@)]
                      /\ itemPayload' = [itemPayload EXCEPT ![r] =
                                           observerPayload(it, sourceItem(srcPos[r]))]
                      /\ UNCHANGED <<delivered, wpc>>
                 ELSE /\ delivered' = [delivered EXCEPT ![r] = Append(@, it)]
                      /\ wpc' = [wpc EXCEPT ![r] = "idle"]
                      /\ UNCHANGED <<widx, itemPayload>>
            /\ UNCHANGED <<srcStatus, consumerSaw>>
  /\ UNCHANGED <<memoOnEnd, srcHasReturn, srcPos, endRuns, endPhase,
                 onNextHooks, onEndHooks, extraCalls, onEndLog>>
  /\ UNCHANGED <<lazyVars, hookVars, getterVars, otherVars>>

\* The underlying stream answers next() with `done`: now, or because it has
\* already finished.
srcEnds(r) ==
  /\ wpc[r] = "next"
  /\ srcStatus' = [srcStatus EXCEPT ![r] = IF @ = "open" THEN "ended" ELSE @]
  /\ IF runsOnEnd(r)
       THEN startOnEnd(r, "next")
       ELSE /\ tell(r, "done")
            /\ UNCHANGED <<endRuns, endPhase, widx, onEndLog>>
  /\ UNCHANGED <<memoOnEnd, srcHasReturn, srcPos, item, itemPayload,
                 onNextHooks, onEndHooks, delivered, extraCalls>>
  /\ UNCHANGED <<lazyVars, hookVars, getterVars, otherVars>>

\* The underlying stream's next() rejects.
srcErrors(r) ==
  /\ wpc[r] = "next"
  /\ srcStatus[r] = "open"
  /\ srcStatus' = [srcStatus EXCEPT ![r] = "errored"]
  /\ tell(r, "error")
  /\ UNCHANGED <<memoOnEnd, srcHasReturn, srcPos, widx, endRuns, endPhase,
                 item, itemPayload, onNextHooks, onEndHooks, delivered,
                 extraCalls, onEndLog>>
  /\ UNCHANGED <<lazyVars, hookVars, getterVars, otherVars>>

\* The running onEnd observer returns; the next one is called, or the run is
\* over.  After the run that mapped the underlying return()'s `done`,
\* return() runs the onEnd callback on the outcome once more.
onEndReturns(r) ==
  /\ wpc[r] = "onEnd"
  /\ IF iterateAsyncHasNext(widx[r], Len(onEndHooks[r]))
       THEN /\ widx' = [widx EXCEPT ![r] = iterateAsyncNext(@)]
            /\ onEndLog' = [onEndLog EXCEPT ![r] =
                              Append(@, onEndHooks[r][iterateAsyncNext(widx[r])])]
            /\ UNCHANGED <<wpc, endRuns, endPhase, consumerSaw>>
       ELSE IF endPhase[r] = "return" /\ runsOnEnd(r)
         THEN startOnEnd(r, "outcome")
         ELSE /\ tell(r, IF endPhase[r] = "next" THEN "done" ELSE "closed")
              /\ UNCHANGED <<widx, endRuns, endPhase, onEndLog>>
  /\ UNCHANGED <<memoOnEnd, srcHasReturn, srcPos, srcStatus, item, itemPayload,
                 onNextHooks, onEndHooks, delivered, extraCalls>>
  /\ UNCHANGED <<lazyVars, hookVars, getterVars, otherVars>>

\* The consumer calls return().
consumerReturn(r) ==
  /\ canCall(r)
  /\ countCall(r)
  /\ srcStatus' = [srcStatus EXCEPT ![r] =
                     IF srcHasReturn[r] /\ @ = "open" THEN "returned" ELSE @]
  /\ IF runsOnEnd(r)
       THEN startOnEnd(r, IF srcHasReturn[r] THEN "return" ELSE "outcome")
       ELSE /\ tell(r, "closed")
            /\ UNCHANGED <<endRuns, endPhase, widx, onEndLog>>
  /\ UNCHANGED <<memoOnEnd, srcHasReturn, srcPos, item, itemPayload,
                 onNextHooks, onEndHooks, delivered>>
  /\ UNCHANGED <<lazyVars, hookVars, getterVars, otherVars>>

\* ------------------------------------------- getTransport, step by step
NoOutcome == [ok |-> FALSE, val |-> "pending"]

\* No call of getTransport has been made.
GetterState ==
  /\ gpc = "idle"
  /\ gKind = "none"
  /\ gInline = Undefined
  /\ gRegistryCalls = <<>>
  /\ gImports = <<>>
  /\ gOut = NoOutcome

\* getTransport(kind) up to its first await (utils.ts:55-58): an inline
\* function is called with kind, an inline mapping is looked up.
getTransportCalled(kind) ==
  /\ gpc = "idle"
  /\ gKind' = kind
  /\ gRegistryCalls' = IF transports.form = "function"
                         THEN Append(gRegistryCalls, kind) ELSE gRegistryCalls
  /\ gInline' = inlineTransport(transports, kind)
  /\ gpc' = "inline"
  /\ UNCHANGED <<gImports, gOut>>
  /\ UNCHANGED <<lazyVars, hookVars, streamVars, otherVars>>

\* The inline source has answered (utils.ts:59-67): a transport is used as
\* it is; otherwise the child logger is made and the conventional module is
\* imported.
inlineSettles ==
  /\ gpc = "inline"
  /\ IF inlineYields(gInline)
       THEN /\ gOut' = Ok(pickGetSubgraphExecutor(gInline))
            /\ gpc' = "done"
            /\ UNCHANGED gImports
       ELSE IF ~hasLogger
         THEN /\ gOut' = Err("TypeError")
              /\ gpc' = "done"
              /\ UNCHANGED gImports
         ELSE /\ gImports' = Append(gImports, gKind)
              /\ gpc' = "import"
              /\ UNCHANGED gOut
  /\ UNCHANGED <<gKind, gInline, gRegistryCalls>>
  /\ UNCHANGED <<lazyVars, hookVars, streamVars, otherVars>>

\* The import has settled (utils.ts:68-89).
importSettles ==
  /\ gpc = "import"
  /\ LET transport == importable[gKind] IN
     gOut' = IF transport = Undefined THEN Err("NoTransportFound")
             ELSE LET f == pickGetSubgraphExecutor(transport) IN
                  IF f = "missing" THEN Err("NoExport")
                  ELSE IF f # "fn" THEN Err("NotAFunction")
                  ELSE Ok(f)
  /\ gpc' = "done"
  /\ UNCHANGED <<gKind, gInline, gRegistryCalls, gImports>>
  /\ UNCHANGED <<lazyVars, hookVars, streamVars, otherVars>>

\* ------------------------------------------------------ comparison helpers
\* constantCase(name) of change-case, on character sequences: a word boundary
\* between a lower-case letter or digit and an upper-case letter, and between an upper-case
\* letter and an upper-case one followed by a lower-case one; runs of other
\* characters are one boundary; words upper-cased and joined by "_".
LowerChars == {"a", "b", "i", "m", "p", "y"}

UpperChars == {"A", "B", "I", "M", "P", "Y"}

UpperOf == [a |-> "A", b |-> "B", i |-> "I", m |-> "M", p |-> "P", y |-> "Y"]

DigitChars == {"1"}

keepChar(ch) == ch

upperChar(ch) == IF ch \in LowerChars THEN UpperOf[ch] ELSE ch

isAlnum(ch) == ch \in LowerChars \cup UpperChars \cup DigitChars

boundaryBefore(name, i) ==
  /\ i > 1
  /\ isAlnum(name[i])
  /\ \/ ~isAlnum(name[i - 1])
     \/ name[i - 1] \in LowerChars \cup DigitChars /\ name[i] \in UpperChars
     \/ /\ name[i - 1] \in UpperChars /\ name[i] \in UpperChars
        /\ i < Len(name) /\ name[i + 1] \in LowerChars

RECURSIVE constantCaseFrom(_, _, _)
constantCaseFrom(name, i, out) ==
  IF i > Len(name) THEN out
  ELSE IF ~isAlnum(name[i]) THEN constantCaseFrom(name, i + 1, out)
  ELSE constantCaseFrom(name, i + 1,
         out \o (IF boundaryBefore(name, i) /\ out # <<>> THEN <<"_">> ELSE <<>>)
             \o <<upperChar(name[i])>>)

constantCase(name) == constantCaseFrom(name, 1, <<>>)

\* compareSubgraphNames(name1, name2)
compareSubgraphNames(name1, name2) == constantCase(name1) = constantCase(name2)

\* Schema inputs of compareSchemas.  An SDL string has a content and a layout
\* (whitespace); parsing keeps the content only, and the printer writes a
\* content in the one canonical layout.
Contents == {"s1", "s2"}

Layouts == {"canonical", "spaced"}

SdlString(c, l) == [kind |-> "string", content |-> c, layout |-> l]

DocumentNode(c) == [kind |-> "document", content |-> c, layout |-> "none"]

GraphQLSchema(c) == [kind |-> "schema", content |-> c, layout |-> "none"]

SchemaInputs ==
  {SdlString(c, l) : c \in Contents, l \in Layouts}
    \cup {DocumentNode(c) : c \in Contents}
    \cup {GraphQLSchema(c) : c \in Contents}

\* print(document) and printSchemaWithDirectives(schema)
print(x) == SdlString(x.content, "canonical")

\* typeof a === 'string' ? a : isDocumentNode(a) ? print(a) : printSchemaWithDirectives(a)
comparedString(x) == IF x.kind = "string" THEN x ELSE print(x)

compareSchemas(a, b) == comparedString(a) = comparedString(b)

\* Three spellings of one subgraph name.
MyApi == <<"M", "y", "A", "p", "i">>

my_api == <<"m", "y", "_", "a", "p", "i">>

MY_API == <<"M", "Y", "-", "A", "P", "I">>

\* Names up to MaxNameLen characters, and the three spellings.
NameChars == {"a", "A", "-", "1"}

NameInputs ==
  UNION {[1..n -> NameChars] : n \in 1..MaxNameLen} \cup {MyApi, my_api, MY_API}

NoInput == <<>>

CompareState ==
  /\ cmpPc = "off"
  /\ cmpA = NoInput
  /\ cmpB = NoInput
  /\ cmpOut = FALSE

\* ------------------------------------------------------- StitchingMerger
\* The subgraphs there are; rawSources is a subset of them, in this order.
SourceNames == 1..MaxSources

\* A subgraph schema: whether it has a query type, whether that type has a
\* field _service, whether extensions.directives.link is set, and whether it
\* is the schema the merger built from stitching SDL.
Schemas == {sch \in [hasQueryType : BOOLEAN, hasService : BOOLEAN, link : BOOLEAN,
                      rewritten : {FALSE}] : sch.hasService => sch.hasQueryType}

\* rawSource.batch as passed in: not specified, true or false.
BatchValues == {"null", "true", "false"}

\* queryType ? '_service' in queryType.getFields() : false
anyQueryType(sch) == sch.hasQueryType

isFederatedSchema(sch) == IF sch.hasQueryType THEN sch.hasService ELSE FALSE

\* (oldSchema.extensions?.directives as any)?.link
neverLinked(sch) == FALSE

carriesLinkMetadata(sch) == sch.link

\* if (rawSource.batch == null) rawSource.batch = true
batchUntouched(b) == b

defaultBatch(b) == IF b = "null" THEN "true" ELSE b

\* The schema replaceFederationSDLWithStitchingSDL returns: built from the
\* stitching SDL, with the old schema's extensions.
rewrittenSchema(old) == [old EXCEPT !.rewritten = TRUE]

AggregateError(name) == <<"AggregateError", name>>

NoError == <<>>

NoSchema == <<>>

\* sourceMap.get has not been called for the subgraph
NotAsked == <<"none">>

MergerState ==
  /\ rawSources = {}
  /\ batchGiven = [n \in SourceNames |-> "null"]
  /\ batch = [n \in SourceNames |-> "null"]
  /\ schema = [n \in SourceNames |->
                 [hasQueryType |-> FALSE, hasService |-> FALSE, link |-> FALSE,
                  rewritten |-> FALSE]]
  /\ merge = [n \in SourceNames |-> "unset"]
  /\ mpc = [n \in SourceNames |-> "off"]
  /\ executorCalls = [n \in SourceNames |-> <<>>]
  /\ sdlFrom = [n \in SourceNames |-> "none"]
  /\ rejections = <<>>
  /\ upc = "off"
  /\ unifiedError = NoError
  /\ stitchCalls = 0
  /\ subschemaMap = [n \in SourceNames |-> NoSchema]
  /\ sourceMapGot = [n \in SourceNames |-> NotAsked]

\* ------------------------------------------------- late-bound getters
\* getSubgraphSchema(subgraphName): the subgraph's schema in the supergraph
\* that is current when it is called.
getSubgraphSchema(s) == <<s, supergraphVersion>>

\* get subgraph() { return getSubgraphSchema(subgraphName) }
\* (utils.ts:150-152, 159-161, 241-243)
schemaAtConstruction(s) == <<s, 0>>

subgraphGetter(s) == getSubgraphSchema(s)

\* get transportEntry() { return transportEntryMap?.[subgraphName] }
\* (utils.ts:153-155, 162-164, 245-247)
transportEntryGetter(s) == kindOf(s)

NoRead == [by |-> "none", subgraph |-> <<>>, transportEntry |-> NoKind]

SwapState ==
  /\ supergraphVersion = 0
  /\ lastRead = NoRead

\* The subgraph whose wrapped executor request "A" goes through.
HookedSubgraph == "a"

\* The calls made while the supergraph is being replaced: a first call and
\* the calls that retry it.
SwapCalls == 1..(MaxRetries + 1)

\* The supergraph is replaced: the owner of transportEntryMap and of
\* getSubgraphSchema updates the entry of the subgraph and its schema.
supergraphSwapped ==
  /\ supergraphVersion < MaxSwaps
  /\ supergraphVersion' = supergraphVersion + 1
  /\ \E k \in Kinds :
       transportEntryMap' = [transportEntryMap EXCEPT ![HookedSubgraph] = k]
  /\ UNCHANGED <<transports, importable, hasLogger, subgraphExecutorMap,
                 transportExecutorStack, pc, sub, ctxKind, created, fwd, result,
                 retried, getterCalls, factoryCalls, lazyCreated>>
  /\ UNCHANGED <<hookVars, streamVars, getterVars, compareVars, mergerVars,
                 reloadVars, otelVars, lastRead>>

\* The transport factory that call c invoked, or the executor it made, reads
\* subgraph and transportEntry of the context it was given.
factoryReadsContext(c) ==
  /\ pc[c] \in {"factory", "wrap", "exec", "done"}
  /\ lastRead' = [by |-> "factory",
                  subgraph |-> subgraphGetter(sub[c]),
                  transportEntry |-> transportEntryGetter(sub[c])]
  /\ UNCHANGED <<lazyVars, hookVars, streamVars, getterVars, compareVars,
                 mergerVars, reloadVars, otelVars, supergraphVersion>>

\* The running pre-hook reads subgraph and transportEntry of its payload.
hookReadsPayload(r) ==
  /\ hpc[r] = "inhook"
  /\ lastRead' = [by |-> "hook",
                  subgraph |-> subgraphGetter(HookedSubgraph),
                  transportEntry |-> transportEntryGetter(HookedSubgraph)]
  /\ UNCHANGED <<lazyVars, hookVars, streamVars, getterVars, compareVars,
                 mergerVars, reloadVars, otelVars, supergraphVersion>>

\* The SDL documents a federated subgraph can serve.
Sdls == {<<"sdl", i>> : i \in 1..MaxSdl}

NoSdl == <<>>

\* No merge has been made: the store proxies are empty.
ReloadState ==
  /\ sdlNow = [n \in SourceNames |-> <<"sdl", 1>>]
  /\ storedFrom = [n \in SourceNames |-> NoSdl]
  /\ rewrittenFrom = [n \in SourceNames |-> NoSdl]
  /\ translations = [n \in SourceNames |-> 0]
  /\ merges = [n \in SourceNames |-> 0]

\* ------------------------------------------------------ useOpenTelemetry
\* The fields the operation resolves.
Fields == 1..MaxFields

\* A span: whether tracer.startSpan made it, how often end() was called on
\* it, and whether recordException / setAttribute were called on it.
NoSpan == [started |-> FALSE, ends |-> <<>>, exception |-> FALSE, result |-> FALSE,
           variables |-> FALSE]

\* tracer.startSpan(name, { attributes }); the execution span has the
\* variables among its attributes when options.variables is set.
startSpan(withVariables) ==
  [started |-> TRUE, ends |-> <<>>, exception |-> FALSE, result |-> FALSE,
   variables |-> withVariables]

end(span, by) == [span EXCEPT !.ends = Append(@, by)]

recordException(span) == [span EXCEPT !.exception = TRUE]

\* The plugin is set up; nothing is being executed.
OtelState ==
  /\ options = [resolvers |-> FALSE, variables |-> FALSE, result |-> FALSE]
  /\ opc = "off"
  /\ executionSpan = NoSpan
  /\ contextSpan = FALSE
  /\ rpc = [f \in Fields |-> "idle"]
  /\ resolverSpan = [f \in Fields |-> NoSpan]

otelOthers == <<lazyVars, hookVars, streamVars, getterVars, compareVars,
                mergerVars, swapVars, reloadVars>>

\* onExecute({ args, extendContext }) (part_000:95-141)
onExecute ==
  /\ opc = "idle"
  /\ opc' = "executing"
  /\ executionSpan' = startSpan(options.variables)
  /\ contextSpan' = options.resolvers
  /\ UNCHANGED <<options, rpc, resolverSpan>>
  /\ UNCHANGED otelOthers

\* The onResolve callback added by onPluginInit when options.resolvers is
\* set, called before the resolver of field f (part_000:57-91).
onResolve(f) ==
  /\ opc = "executing"
  /\ options.resolvers
  /\ rpc[f] = "idle"
  /\ rpc' = [rpc EXCEPT ![f] = "resolving"]
  /\ resolverSpan' = [resolverSpan EXCEPT ![f] = IF contextSpan THEN startSpan(FALSE) ELSE @]
  /\ UNCHANGED <<options, opc, executionSpan, contextSpan>>
  /\ UNCHANGED otelOthers

\* The resolver of field f completes and the callback onResolve returned is
\* called with its result, a value or an Error (part_000:78-87).
ResolverResults == {"value", "Error"}

onResolveDone(f) ==
  /\ rpc[f] = "resolving"
  /\ rpc' = [rpc EXCEPT ![f] = "resolved"]
  /\ \E resolved \in ResolverResults :
       resolverSpan' = [resolverSpan EXCEPT ![f] =
                          IF ~@.started THEN @
                          ELSE IF resolved = "Error" THEN recordException(@)
                          ELSE end(@, "onResolveDone")]
  /\ UNCHANGED <<options, opc, executionSpan, contextSpan>>
  /\ UNCHANGED otelOthers

\* onExecuteDone({ result }) once every resolver has completed
\* (part_000:109-131).
onExecuteDone ==
  /\ opc = "executing"
  /\ \A f \in Fields : rpc[f] # "resolving"
  /\ opc' = "done"
  /\ \E kind \in {"data", "errors", "stream"} :
       executionSpan' =
         IF kind = "stream" THEN end(executionSpan, "onExecuteDone")
         ELSE LET attributed == IF kind = "data" /\ options.result
                                  THEN [executionSpan EXCEPT !.result = TRUE]
                                  ELSE executionSpan
                  recorded == IF kind = "errors" THEN recordException(attributed)
                              ELSE attributed
              IN end(recorded, "onExecuteDone")
  /\ UNCHANGED <<options, contextSpan, rpc, resolverSpan>>
  /\ UNCHANGED otelOthers

ExtraState == SwapState /\ ReloadState /\ OtelState

OtherState == CompareState /\ MergerState /\ ExtraState

APOLLO_GET_SERVICE_DEFINITION_QUERY == "__ApolloGetServiceDefinition__"

\* rawSources.map(...) has called the callback of every source: each callback
\* runs up to its first await inside the map, in array order.
AllStarted == \A n \in rawSources : mpc[n] # "todo"

\* The store proxy's getWithSet(setter): it either yields the schema stored
\* for the subgraph by an earlier load, or calls the setter and stores what it
\* returns.
StoreAnswers == {"stored", "setter"}

\* The synchronous part of the map callback of source n: the batch default,
\* federation detection and, for a federated source, the call of
\* replaceFederationSDLWithStitchingSDL up to its first await.
mapCallback(n) ==
  /\ upc = "running"
  /\ n \in rawSources
  /\ mpc[n] = "todo"
  /\ \A m \in rawSources : m < n => mpc[m] # "todo"
  /\ batch' = [batch EXCEPT ![n] = defaultBatch(@)]
  /\ IF isFederatedSchema(schema[n])
       THEN /\ UNCHANGED merge
            /\ \E answer \in StoreAnswers :
              IF answer = "stored"
                THEN /\ mpc' = [mpc EXCEPT ![n] = "built"]
                     /\ sdlFrom' = [sdlFrom EXCEPT ![n] = "store"]
                     /\ UNCHANGED executorCalls
              ELSE IF carriesLinkMetadata(schema[n])
                THEN \* federationSdl = printSchemaWithDirectives(oldSchema)
                     /\ mpc' = [mpc EXCEPT ![n] = "built"]
                     /\ sdlFrom' = [sdlFrom EXCEPT ![n] = "printed"]
                     /\ UNCHANGED executorCalls
                ELSE \* executor({ document: parse(QUERY) })
                     /\ mpc' = [mpc EXCEPT ![n] = "fetching"]
                     /\ executorCalls' = [executorCalls EXCEPT ![n] =
                                            Append(@, APOLLO_GET_SERVICE_DEFINITION_QUERY)]
                     /\ UNCHANGED sdlFrom
       ELSE /\ merge' = [merge EXCEPT ![n] = "stitchingDirectives"]
            /\ mpc' = [mpc EXCEPT ![n] = "done"]
            /\ UNCHANGED <<executorCalls, sdlFrom>>
  /\ UNCHANGED <<rawSources, batchGiven, schema, rejections, upc, unifiedError,
                 stitchCalls, subschemaMap, sourceMapGot>>
  /\ UNCHANGED <<lazyVars, hookVars, streamVars, getterVars, compareVars, extraVars>>

\* What the subgraph's executor does with the SDL query: a result with
\* data._service.sdl, a result with a non-empty errors list, or a rejection.
SdlQueryResults == {"sdl", "errors", "rejected"}

ExecutorError(name) == <<"ExecutorError", name>>

\* The promise of the SDL query settles and the setter continues.
sdlQuerySettles(n) ==
  /\ AllStarted
  /\ mpc[n] = "fetching"
  /\ \E sdlQueryResult \in SdlQueryResults :
       IF sdlQueryResult = "sdl"
         THEN /\ mpc' = [mpc EXCEPT ![n] = "built"]
              /\ sdlFrom' = [sdlFrom EXCEPT ![n] = "executor"]
              /\ UNCHANGED rejections
         ELSE /\ mpc' = [mpc EXCEPT ![n] = "failed"]
              /\ rejections' = Append(rejections,
                     [name |-> n,
                      error |-> IF sdlQueryResult = "errors"
                                  THEN AggregateError(n) ELSE ExecutorError(n)])
              /\ UNCHANGED sdlFrom
  /\ UNCHANGED <<rawSources, batchGiven, batch, schema, merge, executorCalls, upc,
                 unifiedError, stitchCalls, subschemaMap, sourceMapGot>>
  /\ UNCHANGED <<lazyVars, hookVars, streamVars, getterVars, compareVars, extraVars>>

\* replaceFederationSDLWithStitchingSDL returns; the map callback assigns
\* rawSource.schema and rawSource.merge and returns.
replaceReturns(n) ==
  /\ AllStarted
  /\ mpc[n] = "built"
  /\ schema' = [schema EXCEPT ![n] = rewrittenSchema(@)]
  /\ merge' = [merge EXCEPT ![n] = "stitchingDirectives"]
  /\ mpc' = [mpc EXCEPT ![n] = "done"]
  /\ UNCHANGED <<rawSources, batchGiven, batch, executorCalls, sdlFrom, rejections,
                 upc, unifiedError, stitchCalls, subschemaMap, sourceMapGot>>
  /\ UNCHANGED <<lazyVars, hookVars, streamVars, getterVars, compareVars, extraVars>>

\* await Promise.all(...) throws the first rejection; the other callbacks go on.
promiseAllRejects ==
  /\ upc = "running"
  /\ AllStarted
  /\ rejections # <<>>
  /\ upc' = "failed"
  /\ unifiedError' = Head(rejections).error
  /\ UNCHANGED <<rawSources, batchGiven, batch, schema, merge, mpc, executorCalls,
                 sdlFrom, rejections, stitchCalls, subschemaMap, sourceMapGot>>
  /\ UNCHANGED <<lazyVars, hookVars, streamVars, getterVars, compareVars, extraVars>>

\* The Subschema that stitchSchemas keeps for a subschema config.
Subschema(n) == [name |-> n, transformedSchema |-> schema[n], batch |-> batch[n],
                 merge |-> merge[n]]

\* Promise.all(promises) fulfils when every callback has returned.
allSettled == \A n \in rawSources : mpc[n] \in {"done", "failed"}

allFulfilled == \A n \in rawSources : mpc[n] = "done"

\* Promise.all fulfils; stitchSchemas({ subschemas, ... }); the sourceMap proxy
\* is attached and { schema } returned.
stitchAndReturn ==
  /\ upc = "running"
  /\ allFulfilled
  /\ stitchCalls' = stitchCalls + 1
  /\ subschemaMap' = [n \in SourceNames |->
                        IF n \in rawSources THEN Subschema(n) ELSE NoSchema]
  /\ upc' = "returned"
  /\ UNCHANGED <<rawSources, batchGiven, batch, schema, merge, mpc, executorCalls,
                 sdlFrom, rejections, unifiedError, sourceMapGot>>
  /\ UNCHANGED <<lazyVars, hookVars, streamVars, getterVars, compareVars, extraVars>>

\* for (const [subschemaConfig, subschema] of stitchingInfo.subschemaMap)
\*   if (subschemaConfig.name === rawSource.name) return subschema.transformedSchema
anySubschema(name) ==
  IF \E n \in SourceNames : subschemaMap[n] # NoSchema
    THEN <<"schema", (CHOOSE n \in SourceNames : subschemaMap[n] # NoSchema),
           subschemaMap[CHOOSE n \in SourceNames : subschemaMap[n] # NoSchema].transformedSchema>>
    ELSE <<"undefined">>

subschemaNamed(name) ==
  IF \E n \in SourceNames : subschemaMap[n] # NoSchema /\ subschemaMap[n].name = name
    THEN LET n == CHOOSE n \in SourceNames :
                    subschemaMap[n] # NoSchema /\ subschemaMap[n].name = name
         IN <<"schema", n, subschemaMap[n].transformedSchema>>
    ELSE <<"undefined">>

\* unifiedSchema.extensions.sourceMap.get(rawSource), rawSource.name = name
sourceMapGet(name) ==
  /\ upc = "returned"
  /\ sourceMapGot[name] = NotAsked
  /\ sourceMapGot' = [sourceMapGot EXCEPT ![name] = subschemaNamed(name)]
  /\ UNCHANGED <<rawSources, batchGiven, batch, schema, merge, mpc, executorCalls,
                 sdlFrom, rejections, upc, unifiedError, stitchCalls, subschemaMap>>
  /\ UNCHANGED <<lazyVars, hookVars, streamVars, getterVars, compareVars, extraVars>>

compareSubgraphNamesCalled ==
  /\ cmpPc = "names"
  /\ cmpOut' = compareSubgraphNames(cmpA, cmpB)
  /\ cmpPc' = "namesCompared"
  /\ UNCHANGED <<cmpA, cmpB>>
  /\ UNCHANGED <<lazyVars, hookVars, streamVars, getterVars, mergerVars, extraVars>>

compareSchemasCalled ==
  /\ cmpPc = "schemas"
  /\ cmpOut' = compareSchemas(cmpA, cmpB)
  /\ cmpPc' = "schemasCompared"
  /\ UNCHANGED <<cmpA, cmpB>>
  /\ UNCHANGED <<lazyVars, hookVars, streamVars, getterVars, mergerVars, extraVars>>

\* ------------------------------------------------------ successive merges
\* The subgraph is redeployed with another SDL.
sdlChanges(n) ==
  /\ \E d \in Sdls \ {sdlNow[n]} : sdlNow' = [sdlNow EXCEPT ![n] = d]
  /\ UNCHANGED <<storedFrom, rewrittenFrom, translations, merges>>
  /\ UNCHANGED <<lazyVars, hookVars, streamVars, getterVars, compareVars,
                 mergerVars, swapVars, otelVars>>

\* One call of replaceFederationSDLWithStitchingSDL(name, ...) in a merge:
\* store.proxy(`${name}_stitching`, ...).getWithSet(setter) either yields the
\* schema the proxy holds or runs the setter, which fetches the SDL,
\* translates it with federationToStitchingSDL and builds the schema, and
\* keeps what the setter returned (part_002:58-83).  The proxy is named by
\* the subgraph's name alone and is not given the SDL.
replaceFederationSDLWithStitchingSDL(n) ==
  /\ merges[n] < MaxMerges
  /\ merges' = [merges EXCEPT ![n] = @ + 1]
  /\ \E answer \in StoreAnswers :
       IF answer = "stored"
         THEN /\ storedFrom[n] # NoSdl
              /\ rewrittenFrom' = [rewrittenFrom EXCEPT ![n] = storedFrom[n]]
              /\ UNCHANGED <<storedFrom, translations>>
         ELSE /\ translations' = [translations EXCEPT ![n] = @ + 1]
              /\ storedFrom' = [storedFrom EXCEPT ![n] = sdlNow[n]]
              /\ rewrittenFrom' = [rewrittenFrom EXCEPT ![n] = sdlNow[n]]
  /\ UNCHANGED sdlNow
  /\ UNCHANGED <<lazyVars, hookVars, streamVars, getterVars, compareVars,
                 mergerVars, swapVars, otelVars>>

\* ------------------------------------------------------- specifications
\* State after getOnSubgraphExecute(...) has returned: nothing cached yet.
\* keys: the names onSubgraphExecute is called with; entries: transportEntryMap.
LazyStateOver(keys, entries, none) ==
  /\ transportEntryMap = entries
  /\ subgraphExecutorMap = [s \in keys |-> Absent]
  /\ transportExecutorStack = <<>>
  /\ pc = [c \in Calls |-> "idle"]
  /\ sub = [c \in Calls |-> none]
  /\ ctxKind = [c \in Calls |-> NoKind]
  /\ created = [c \in Calls |-> "none"]
  /\ fwd = [c \in Calls |-> 0]
  /\ result = [c \in Calls |-> <<"pending">>]
  /\ retried = [c \in Calls |-> FALSE]
  /\ getterCalls = [s \in keys |-> 0]
  /\ factoryCalls = [s \in keys |-> 0]
  /\ lazyCreated = [s \in keys |-> 0]

LazyState ==
  LazyStateOver(Subgraphs,
                [s \in Subgraphs |-> IF s = "a" THEN "http" ELSE "ghost"], "a")

\* The executor cache does not look at the form of the inline source, only at
\* what getTransport yields: one inline form stands for both.
LazyTransports == {InlineHttp, NoTransports}

LazyInit ==
  /\ transports \in LazyTransports
  /\ importable \in ImportOptions
  /\ hasLogger \in BOOLEAN
  /\ LazyState

NotReturned == [kind |-> "none", res |-> NoResult, err |-> ""]

\* State after wrapExecutorWithHooks(...) has returned executorWithHooks, with
\* the requests of `live` about to be passed to it.
HooksState(live) ==
  /\ executor = TransportExecutor
  /\ hpc = [r \in Requests |-> IF r \in live THEN "idle" ELSE "off"]
  /\ hidx = [r \in Requests |-> 0]
  /\ executionRequest = [r \in Requests |-> Original(r)]
  /\ infoSet = [r \in Requests |-> FALSE]
  /\ payload = [r \in Requests |-> NoPayload]
  /\ pendingDone = [r \in Requests |-> FALSE]
  /\ lastSetExecutor = [r \in Requests |-> TransportExecutor]
  /\ lastSetRequest = [r \in Requests |-> Original(r)]
  /\ onSubgraphExecuteDoneHooks = [r \in Requests |-> <<>>]
  /\ preState = [r \in Requests |-> [h \in HookIds |-> "not"]]
  /\ execState = [r \in Requests |-> "not"]
  /\ doneState = [r \in Requests |-> [h \in HookIds |-> "not"]]
  /\ called = [r \in Requests |-> NoInvocation]
  /\ currentResult = [r \in Requests |-> NoResult]
  /\ payloadResult = [r \in Requests |-> NoResult]
  /\ pendingRet = [r \in Requests |-> Nothing]
  /\ executeDoneResults = [r \in Requests |-> <<>>]
  /\ returned = [r \in Requests |-> NotReturned]

\* No wrapped stream exists yet.
StreamState ==
  /\ srcHasReturn = [r \in Requests |-> FALSE]
  /\ srcPos = [r \in Requests |-> 0]
  /\ srcStatus = [r \in Requests |-> "none"]
  /\ wpc = [r \in Requests |-> "none"]
  /\ widx = [r \in Requests |-> 0]
  /\ endRuns = [r \in Requests |-> 0]
  /\ endPhase = [r \in Requests |-> "none"]
  /\ item = [r \in Requests |-> <<>>]
  /\ itemPayload = [r \in Requests |-> <<>>]
  /\ onNextHooks = [r \in Requests |-> <<>>]
  /\ onEndHooks = [r \in Requests |-> <<>>]
  /\ delivered = [r \in Requests |-> <<>>]
  /\ consumerSaw = [r \in Requests |-> "open"]
  /\ extraCalls = [r \in Requests |-> 0]
  /\ onEndLog = [r \in Requests |-> <<>>]

vars == <<lazyVars, hookVars, streamVars, getterVars, otherVars>>

\* Spec: the executor cache.  No plugin has an onSubgraphExecute hook.
Init ==
  /\ LazyInit
  /\ numHooks = 0
  /\ HooksState({})
  /\ memoOnEnd = FALSE
  /\ StreamState
  /\ GetterState
  /\ OtherState

Next ==
  \/ \E c \in Calls, s \in Subgraphs : onSubgraphExecute(c, s)
  \/ \E c \in Calls : getterSettles(c)
  \/ \E c \in Calls : factoryReturns(c)
  \/ \E c \in Calls : factoryThrows(c)
  \/ \E c \in Calls : wrapAndForward(c)
  \/ \E c \in Calls : executorReturns(c)

Spec == Init /\ [][Next]_vars

\* SpecNames: the executor cache, called with differently written names of
\* one subgraph.  transportEntryMap lists the subgraph under MergerName.
NamesInit ==
  /\ transports \in TransportsOptions
  /\ importable \in ImportOptions
  /\ hasLogger \in BOOLEAN
  /\ LazyStateOver(Names, [s \in {MergerName} |-> "http"], MergerName)
  /\ numHooks = 0
  /\ HooksState({})
  /\ memoOnEnd = FALSE
  /\ StreamState
  /\ GetterState
  /\ OtherState

NamesNext ==
  \/ \E c \in Calls, s \in Names : onSubgraphExecute(c, s)
  \/ \E c \in Calls : getterSettles(c)
  \/ \E c \in Calls : factoryReturns(c)
  \/ \E c \in Calls : factoryThrows(c)
  \/ \E c \in Calls : wrapAndForward(c)
  \/ \E c \in Calls : executorReturns(c)

SpecNames == NamesInit /\ [][NamesNext]_vars

\* The wrapped executor of subgraph "a" exists; the cache is at rest.
PipelineInit(live) ==
  /\ transports = InlineHttp
  /\ importable = [k \in Kinds |-> Undefined]
  /\ hasLogger \in BOOLEAN
  /\ LazyState
  /\ numHooks \in 0..MaxHooks
  /\ HooksState(live)
  /\ memoOnEnd \in BOOLEAN
  /\ StreamState
  /\ GetterState
  /\ OtherState

\* SpecPre: two requests on the same wrapped executor, from the call of
\* executorWithHooks to the call of the executor.
PreInit == PipelineInit(Requests)

PreNext ==
  \/ \E r \in Requests : executorWithHooks(r)
  \/ \E r \in Requests : hookReturns(r)
  \/ \E r \in Requests : hookThrows(r)
  \/ \E r \in Requests : preNext(r)

SpecPre == PreInit /\ [][PreNext]_vars

\* SpecHooks: one request through all phases, up to what executorWithHooks
\* returns.
HooksInit == PipelineInit({"A"})

HooksNext ==
  \/ executorWithHooks("A")
  \/ hookReturns("A")
  \/ hookThrows("A")
  \/ preNext("A")
  \/ executorSettles("A")
  \/ executorThrows("A")
  \/ doneReturns("A")
  \/ doneThrows("A")
  \/ postNext("A")

SpecHooks == HooksInit /\ [][HooksNext]_vars

\* SpecStream: the consumer of a wrapped stream.  It starts where SpecHooks
\* ends with a wrapped stream for request "A": each of the n pre-hooks has
\* registered a done hook, the transport executor has returned a stream, and
\* done hook i has returned rets[i].
RECURSIVE pushedResults(_, _)
pushedResults(rets, n) ==
  IF n = 0 THEN <<>>
  ELSE IF rets[n].any
    THEN Append(pushedResults(rets, n - 1),
                [hook |-> n, onNext |-> rets[n].onNext, onEnd |-> rets[n].onEnd])
    ELSE pushedResults(rets, n - 1)

StreamOf(r) == ResultOf("stream", TransportExecutor, Original(r))

StreamInit ==
  /\ transports = InlineHttp
  /\ importable = [k \in Kinds |-> Undefined]
  /\ hasLogger \in BOOLEAN
  /\ LazyState
  /\ memoOnEnd \in BOOLEAN
  /\ numHooks \in 1..MaxHooks
  /\ \E rets \in [1..numHooks -> DoneRets] :
       LET pushed == pushedResults(rets, numHooks) IN
       /\ finalKind(StreamOf("A"), pushed) = "wrapped"
       /\ executeDoneResults = [r \in Requests |-> IF r = "A" THEN pushed ELSE <<>>]
       /\ onNextHooks = [r \in Requests |-> IF r = "A" THEN collectOnNext(pushed) ELSE <<>>]
       /\ onEndHooks = [r \in Requests |-> IF r = "A" THEN collectOnEnd(pushed) ELSE <<>>]
  /\ executor = TransportExecutor
  /\ hpc = [r \in Requests |-> IF r = "A" THEN "returned" ELSE "off"]
  /\ hidx = [r \in Requests |-> IF r = "A" THEN numHooks ELSE 0]
  /\ executionRequest = [r \in Requests |-> Original(r)]
  /\ infoSet = [r \in Requests |-> r = "A"]
  /\ payload = [r \in Requests |-> NoPayload]
  /\ pendingDone = [r \in Requests |-> FALSE]
  /\ lastSetExecutor = [r \in Requests |-> TransportExecutor]
  /\ lastSetRequest = [r \in Requests |-> Original(r)]
  /\ onSubgraphExecuteDoneHooks =
       [r \in Requests |-> IF r = "A" THEN [i \in 1..numHooks |-> i] ELSE <<>>]
  /\ preState = [r \in Requests |-> [h \in HookIds |->
                   IF r = "A" /\ h <= numHooks THEN "finished" ELSE "not"]]
  /\ execState = [r \in Requests |-> IF r = "A" THEN "settled" ELSE "not"]
  /\ doneState = [r \in Requests |-> [h \in HookIds |->
                    IF r = "A" /\ h <= numHooks THEN "finished" ELSE "not"]]
  /\ called = [r \in Requests |->
                 IF r = "A" THEN [executor |-> TransportExecutor, request |-> Original(r)]
                 ELSE NoInvocation]
  /\ currentResult = [r \in Requests |-> IF r = "A" THEN StreamOf("A") ELSE NoResult]
  /\ payloadResult = [r \in Requests |-> IF r = "A" THEN StreamOf("A") ELSE NoResult]
  /\ pendingRet = [r \in Requests |-> Nothing]
  /\ returned = [r \in Requests |->
                   IF r = "A" THEN [kind |-> "wrapped", res |-> StreamOf("A"), err |-> ""]
                   ELSE NotReturned]
  /\ srcHasReturn \in {[r \in Requests |-> r = "A" /\ b] : b \in BOOLEAN}
  /\ srcStatus = [r \in Requests |-> IF r = "A" THEN "open" ELSE "none"]
  /\ wpc = [r \in Requests |-> IF r = "A" THEN "idle" ELSE "none"]
  /\ srcPos = [r \in Requests |-> 0]
  /\ widx = [r \in Requests |-> 0]
  /\ endRuns = [r \in Requests |-> 0]
  /\ endPhase = [r \in Requests |-> "none"]
  /\ item = [r \in Requests |-> <<>>]
  /\ itemPayload = [r \in Requests |-> <<>>]
  /\ delivered = [r \in Requests |-> <<>>]
  /\ consumerSaw = [r \in Requests |-> "open"]
  /\ extraCalls = [r \in Requests |-> 0]
  /\ onEndLog = [r \in Requests |-> <<>>]
  /\ GetterState
  /\ OtherState

StreamNext ==
  \/ consumerNext("A")
  \/ srcYields("A")
  \/ srcEnds("A")
  \/ srcErrors("A")
  \/ onNextReturns("A")
  \/ onEndReturns("A")
  \/ consumerReturn("A")

SpecStream == StreamInit /\ [][StreamNext]_vars

\* The whole pipeline of one request, from the call of executorWithHooks to
\* the end of the stream it gets.
PipelineNext == HooksNext \/ StreamNext

SpecPipeline == HooksInit /\ [][PipelineNext]_vars

\* SpecGetter: one call of getTransport for every shape of the inline source
\* and of the conventional module of kind "http".
ModulesOrNothing == Modules \cup {Undefined}

AllTransports ==
  {NoTransports} \cup
  { [form |-> f, at |-> [k \in Kinds |-> IF k = "http" THEN m ELSE Undefined]] :
      f \in {"map", "function"}, m \in ModulesOrNothing }

AllImports ==
  { [k \in Kinds |-> IF k = "http" THEN m ELSE n] :
      m \in ModulesOrNothing, n \in {Undefined, DefaultExport} }

GetterInit ==
  /\ transports \in AllTransports
  /\ importable \in AllImports
  /\ hasLogger \in BOOLEAN
  /\ LazyState
  /\ numHooks = 0
  /\ HooksState({})
  /\ memoOnEnd = FALSE
  /\ StreamState
  /\ GetterState
  /\ OtherState

GetterNext ==
  \/ \E kind \in Kinds : getTransportCalled(kind)
  \/ inlineSettles
  \/ importSettles

SpecGetter == GetterInit /\ [][GetterNext]_vars

\* SpecCompare: one call of compareSubgraphNames or of compareSchemas, on
\* every pair of inputs.
CompareInit ==
  /\ \/ cmpPc = "names" /\ cmpA \in NameInputs /\ cmpB \in NameInputs
     \/ cmpPc = "schemas" /\ cmpA \in SchemaInputs /\ cmpB \in SchemaInputs
  /\ cmpOut = FALSE
  /\ transports = NoTransports
  /\ importable \in {[k \in Kinds |-> Undefined]}
  /\ hasLogger = FALSE
  /\ LazyState
  /\ numHooks = 0
  /\ HooksState({})
  /\ memoOnEnd = FALSE
  /\ StreamState
  /\ GetterState
  /\ MergerState
  /\ ExtraState

CompareNext ==
  \/ compareSubgraphNamesCalled
  \/ compareSchemasCalled

SpecCompare == CompareInit /\ [][CompareNext]_vars

\* SpecMerger: one call of getUnifiedSchema({ rawSources, ... }) and the
\* lookups in the sourceMap of the schema it returns.
MergerInit ==
  /\ rawSources \in SUBSET SourceNames
  /\ batchGiven \in [SourceNames -> BatchValues]
  /\ \A n \in SourceNames \ rawSources : batchGiven[n] = "null"
  /\ batch = batchGiven
  /\ schema \in [SourceNames -> Schemas]
  /\ \A n \in SourceNames \ rawSources : ~schema[n].hasQueryType /\ ~schema[n].link
  /\ merge = [n \in SourceNames |-> "unset"]
  /\ mpc = [n \in SourceNames |-> IF n \in rawSources THEN "todo" ELSE "off"]
  /\ executorCalls = [n \in SourceNames |-> <<>>]
  /\ sdlFrom = [n \in SourceNames |-> "none"]
  /\ rejections = <<>>
  /\ upc = "running"
  /\ unifiedError = NoError
  /\ stitchCalls = 0
  /\ subschemaMap = [n \in SourceNames |-> NoSchema]
  /\ sourceMapGot = [n \in SourceNames |-> NotAsked]
  /\ transports = NoTransports
  /\ importable \in {[k \in Kinds |-> Undefined]}
  /\ hasLogger = FALSE
  /\ LazyState
  /\ numHooks = 0
  /\ HooksState({})
  /\ memoOnEnd = FALSE
  /\ StreamState
  /\ GetterState
  /\ CompareState
  /\ ExtraState

MergerNext ==
  \/ \E n \in SourceNames : mapCallback(n)
  \/ \E n \in SourceNames : sdlQuerySettles(n)
  \/ \E n \in SourceNames : replaceReturns(n)
  \/ promiseAllRejects
  \/ stitchAndReturn
  \/ \E n \in SourceNames : sourceMapGet(n)

SpecMerger == MergerInit /\ [][MergerNext]_vars

\* SpecSwap: the executor cache of one subgraph, whose kind has no transport
\* at first, while the supergraph is replaced; and request "A" on the
\* subgraph's wrapped executor, in its first pre-hook.
SwapInit ==
  /\ transports = InlineHttp
  /\ importable = [k \in Kinds |-> Undefined]
  /\ hasLogger = TRUE
  /\ LazyStateOver(Subgraphs,
                   [s \in Subgraphs |-> IF s = HookedSubgraph THEN "ghost" ELSE "http"],
                   HookedSubgraph)
  /\ numHooks = 1
  /\ HooksState({"A"})
  /\ memoOnEnd = FALSE
  /\ StreamState
  /\ GetterState
  /\ OtherState

SwapNext ==
  \/ \E c \in SwapCalls : onSubgraphExecute(c, HookedSubgraph)
  \/ \E c \in SwapCalls : getterSettles(c)
  \/ \E c \in SwapCalls : factoryReturns(c)
  \/ \E c \in SwapCalls : factoryThrows(c)
  \/ \E c \in SwapCalls : wrapAndForward(c)
  \/ \E c \in SwapCalls : executorReturns(c)
  \/ \E c \in SwapCalls : factoryReadsContext(c)
  \/ executorWithHooks("A")
  \/ hookReadsPayload("A")
  \/ supergraphSwapped

SpecSwap == SwapInit /\ [][SwapNext]_vars

\* SpecReload: merges made one after the other by one StitchingMerger while
\* the federated subgraphs are redeployed.
ReloadInit ==
  /\ transports = InlineHttp
  /\ importable = [k \in Kinds |-> Undefined]
  /\ hasLogger = TRUE
  /\ LazyState
  /\ numHooks = 0
  /\ HooksState({})
  /\ memoOnEnd = FALSE
  /\ StreamState
  /\ GetterState
  /\ OtherState

ReloadNext ==
  \/ \E n \in SourceNames : sdlChanges(n)
  \/ \E n \in SourceNames : replaceFederationSDLWithStitchingSDL(n)

SpecReload == ReloadInit /\ [][ReloadNext]_vars

\* SpecOtel: one operation executed under the useOpenTelemetry plugin.
OtelInit ==
  /\ transports = InlineHttp
  /\ importable = [k \in Kinds |-> Undefined]
  /\ hasLogger = TRUE
  /\ LazyState
  /\ numHooks = 0
  /\ HooksState({})
  /\ memoOnEnd = FALSE
  /\ StreamState
  /\ GetterState
  /\ CompareState
  /\ MergerState
  /\ SwapState
  /\ ReloadState
  /\ options \in [resolvers : BOOLEAN, variables : BOOLEAN, result : BOOLEAN]
  /\ opc = "idle"
  /\ executionSpan = NoSpan
  /\ contextSpan = FALSE
  /\ rpc = [f \in Fields |-> "idle"]
  /\ resolverSpan = [f \in Fields |-> NoSpan]

OtelNext ==
  \/ onExecute
  \/ \E f \in Fields : onResolve(f)
  \/ \E f \in Fields : onResolveDone(f)
  \/ onExecuteDone

SpecOtel == OtelInit /\ [][OtelNext]_vars

\* ====================================================== claims under Spec
ExecutorsOf(s) == {c \in Calls : sub[c] = s /\ created[c] # "none"}

OnStack(c) == \E i \in 1..Len(transportExecutorStack) : transportExecutorStack[i] = c

\* C1: as long as no initialisation of subgraph s has failed (so every call
\* that ran the initialisation was issued before the first one completed),
\* the transport factory of s has been invoked at most once and at most one
\* transport executor has been created for s.
C1_FactoryInvokedOnce ==
  \A s \in Subgraphs :
    FailedFor(s) = {} =>
      /\ factoryCalls[s] <= 1
      /\ Cardinality(ExecutorsOf(s)) <= 1

\* C2: a call whose initialisation fails (factory getter or factory) ends
\* with the error at its caller and leaves subgraphExecutorMap as it was, the
\* entry of its subgraph still present; and a call that finds the lazy
\* placeholder runs the initialisation again (it calls the factory getter).
C2_FailedInitKeepsPlaceholder ==
  [][ /\ \A c \in Calls :
           (pc[c] \in {"getter", "factory"} /\ pc'[c] = "failed") =>
             /\ subgraphExecutorMap' = subgraphExecutorMap
             /\ subgraphExecutorMap'[sub[c]] # Absent
             /\ result'[c][1] = "error"
      /\ \A c \in Calls :
           (pc[c] = "idle" /\ pc'[c] # "idle" /\ subgraphExecutorMap[sub'[c]] = Lazy) =>
             /\ pc'[c] = "getter"
             /\ getterCalls'[sub'[c]] = getterCalls[sub'[c]] + 1
             /\ subgraphExecutorMap'[sub'[c]] = Lazy
    ]_vars

\* C2 witness: a call issued after a failed initialisation of its subgraph
\* ran the initialisation itself and got its answer.
C2_Witness ==
  \E c \in Calls :
    /\ retried[c]
    /\ pc[c] = "done"
    /\ fwd[c] = c
    /\ subgraphExecutorMap[sub[c]] = Wrapped(c)

\* C5: a disposable transport executor whose wrapped form is in the cache is
\* on the disposable stack, and so is every disposable executor a factory has
\* returned, cached or not.
C5_DisposableOnStackBeforeCached ==
  /\ \A s \in Subgraphs :
       LET e == subgraphExecutorMap[s] IN
       (e.tag = "wrapped" /\ created[e.of] = "disposable") => OnStack(e.of)
  /\ \A c \in Calls : created[c] = "disposable" => OnStack(c)

\* C5 witness: a disposable executor is cached while another disposable
\* executor of the same subgraph, created by a racing call, is not.
C5_Witness ==
  \E c, d \in Calls :
    /\ c # d
    /\ sub[c] = sub[d]
    /\ created[c] = "disposable"
    /\ created[d] = "disposable"
    /\ subgraphExecutorMap[sub[c]] = Wrapped(c)
    /\ pc[d] \in {"exec", "done"}
    /\ OnStack(c)
    /\ OnStack(d)

\* C31: the step of onSubgraphExecute that finds no cache entry leaves the
\* lazy placeholder in the cache (the insertion is made before the call is
\* suspended); a call that has started always has an entry for its subgraph
\* in the cache; a call for a subgraph for which a call has already started
\* creates no placeholder; and no subgraph ever gets a second placeholder.
C31_PlaceholderBeforeSuspension ==
  /\ [](\A s \in Subgraphs : lazyCreated[s] <= 1)
  /\ [](\A c \in Calls : pc[c] # "idle" => subgraphExecutorMap[sub[c]] # Absent)
  /\ [][\A c \in Calls :
          (pc[c] = "idle" /\ pc'[c] # "idle") =>
            /\ subgraphExecutorMap[sub'[c]] = Absent =>
                  /\ subgraphExecutorMap'[sub'[c]] = Lazy
                  /\ lazyCreated'[sub'[c]] = 1
            /\ (\E d \in Calls : pc[d] # "idle" /\ sub[d] = sub'[c]) =>
                  /\ subgraphExecutorMap[sub'[c]] # Absent
                  /\ lazyCreated' = lazyCreated]_vars

\* C31 witness: a second call for a subgraph started while the first was
\* still waiting for the factory getter, and the subgraph has one placeholder.
C31_Witness ==
  \E c, d \in Calls :
    /\ c < d
    /\ sub[c] = sub[d]
    /\ pc[c] = "getter"
    /\ pc[d] = "getter"
    /\ subgraphExecutorMap[sub[c]] = Lazy
    /\ lazyCreated[sub[c]] = 1

\* C32: the entry of a subgraph in subgraphExecutorMap changes only from
\* absent to the lazy placeholder and from the lazy placeholder to a wrapped
\* executor: an entry is never removed, and an entry that holds a wrapped
\* executor is never overwritten.
C32_CacheOnlyUpgrades ==
  [][\A s \in Subgraphs :
       subgraphExecutorMap'[s] # subgraphExecutorMap[s] =>
         \/ subgraphExecutorMap[s] = Absent /\ subgraphExecutorMap'[s] = Lazy
         \/ subgraphExecutorMap[s] = Lazy /\ subgraphExecutorMap'[s].tag = "wrapped"]_vars

\* ================================================= claims under SpecHooks
Started == {"running", "finished", "threw"}

\* C34: a request whose first pre-hook has been called, or for which the
\* executor has been called, has info.executionRequest set; and with an
\* empty hook list the call of executorWithHooks calls the transport executor
\* at once with the request it was given, the executor is not called again
\* for that request, no hook runs, and what the caller gets is what the
\* executor returned for that request, or the error it threw.
C34_InfoAttachedAndShortCircuit ==
  /\ [](\A r \in Requests :
          (hpc[r] \notin {"idle", "off"} \/ called[r] # NoInvocation) => infoSet[r])
  /\ [](\A r \in Requests :
          numHooks = 0 =>
            /\ called[r] \in {NoInvocation,
                               [executor |-> TransportExecutor, request |-> Original(r)]}
            /\ \A h \in HookIds : preState[r][h] = "not" /\ doneState[r][h] = "not"
            /\ hpc[r] = "returned" =>
                 \E kind \in ResultKinds :
                   returned[r] = [kind |-> kind,
                                  res |-> ResultOf(kind, TransportExecutor, Original(r)),
                                  err |-> ""]
            /\ hpc[r] = "thrown" => returned[r].err = "ExecutorError")
  /\ [][\A r \in Requests :
          numHooks = 0 =>
            /\ (hpc[r] = "idle" /\ hpc'[r] # "idle") =>
                  /\ hpc'[r] = "exec"
                  /\ called'[r] # NoInvocation
            /\ called[r] # NoInvocation => called'[r] = called[r]]_vars

\* C34 witness: the executor returned a result for a request that came
\* through a wrapped executor without hooks, and the caller has it.
C34_Witness ==
  \E r \in Requests :
    /\ numHooks = 0
    /\ infoSet[r]
    /\ hpc[r] = "returned"
    /\ returned[r].res = ResultOf("single", TransportExecutor, Original(r))

RegisteredDone(r) ==
  {h \in HookIds : \E i \in 1..Len(onSubgraphExecuteDoneHooks[r]) :
                     onSubgraphExecuteDoneHooks[r][i] = h}

\* C3: for every request, a pre-hook has started only if all pre-hooks before
\* it have finished (so they run one at a time, in order h1..hn); the
\* executor has been called only if all n pre-hooks have finished; a done
\* callback has started only if the executor has produced its result, the
\* pre-hook that returned it has finished, and the done callbacks of all
\* earlier pre-hooks have finished; and the done callbacks are queued in the
\* order of the pre-hooks that returned them.
C3_HookOrdering ==
  \A r \in Requests :
    /\ \A h \in HookIds :
         preState[r][h] \in Started =>
           /\ h <= numHooks
           /\ \A g \in 1..(h - 1) : preState[r][g] = "finished"
    /\ execState[r] # "not" =>
         \A h \in 1..numHooks : preState[r][h] = "finished"
    /\ \A h \in HookIds :
         doneState[r][h] \in Started =>
           /\ execState[r] = "settled"
           /\ preState[r][h] = "finished"
           /\ \A g \in 1..(h - 1) : doneState[r][g] \in {"not", "finished"}
    /\ \A h \in HookIds : doneState[r][h] # "not" <=> h \in RegisteredDone(r)
    /\ \A i, j \in 1..Len(onSubgraphExecuteDoneHooks[r]) :
         i < j => onSubgraphExecuteDoneHooks[r][i] < onSubgraphExecuteDoneHooks[r][j]

\* C3 witness: a request with two pre-hooks, each of which returned a done
\* callback, has gone through all of them and has its result.
C3_Witness ==
  \E r \in Requests :
    /\ numHooks >= 2
    /\ hpc[r] = "returned"
    /\ onSubgraphExecuteDoneHooks[r] = [i \in 1..numHooks |-> i]
    /\ \A h \in 1..numHooks : preState[r][h] = "finished" /\ doneState[r][h] = "finished"

\* What a done hook returned that was pushed on executeDoneResults carries an
\* observer.
HasObserver(ret) == ret.onNext # "none" \/ ret.onEnd

\* C35: when executorWithHooks has returned after the done hooks have run,
\* the caller has the final result itself if it is not a stream or if it is
\* a stream and no done hook returned an onNext or onEnd observer, and has
\* the stream wrapped, with exactly the observers returned, if at least one
\* observer was returned.
C35_FinalResultPassThrough ==
  \A r \in Requests :
    (hpc[r] = "returned" /\ onSubgraphExecuteDoneHooks[r] # <<>>) =>
      LET observers == {i \in 1..Len(executeDoneResults[r]) :
                           HasObserver(executeDoneResults[r][i])}
      IN
      /\ returned[r].res = currentResult[r]
      /\ returned[r].err = ""
      /\ currentResult[r].kind # "stream" => returned[r].kind = "single"
      /\ (currentResult[r].kind = "stream" /\ observers = {}) =>
           /\ returned[r].kind = "stream"
           /\ wpc[r] = "none"
      /\ (currentResult[r].kind = "stream" /\ observers # {}) =>
           /\ returned[r].kind = "wrapped"
           /\ wpc[r] # "none"
           /\ Len(onNextHooks[r]) + Len(onEndHooks[r]) >= 1
           /\ Len(onNextHooks[r]) =
                Cardinality({i \in observers : executeDoneResults[r][i].onNext # "none"})
           /\ Len(onEndHooks[r]) =
                Cardinality({i \in observers : executeDoneResults[r][i].onEnd})

\* C35 witness: the final result is a stream, a done hook returned an object
\* without observers, and the caller has the stream itself.
C35_Witness ==
  \E r \in Requests :
    /\ hpc[r] = "returned"
    /\ currentResult[r].kind = "stream"
    /\ executeDoneResults[r] # <<>>
    /\ returned[r].kind = "stream"

\* C38: whatever the runtime was built with, a hook that calls a mutator
\* does not fail because of the call: no request ends with a TypeError, and
\* a pre-hook or done hook ends in failure only when the hook itself threw.
C38_MutatorsNeverRaise ==
  \A r \in Requests :
    /\ returned[r].err # "TypeError"
    /\ \A h \in HookIds :
         (preState[r][h] = "threw" \/ doneState[r][h] = "threw") =>
           returned[r].err = "HookError"

\* C39: a done hook is called with the result as the setResult calls of the
\* done hooks before it have left it, the executor's result if there were
\* none: a setResult call replaces the result, a hook that makes none leaves
\* it alone, and the next hook is given what is current then.  The caller
\* gets the result that is current after the last done hook, and it is
\* handled as a stream exactly when that result is a stream.
C39_DoneHooksSeeLatestResult ==
  /\ [](\A r \in Requests :
          /\ hpc[r] = "indone" =>
               /\ payloadResult[r] = currentResult[r]
               /\ currentResult[r].setBy # 0 =>
                    \E i \in 1..(hidx[r] - 1) :
                      /\ onSubgraphExecuteDoneHooks[r][i] = currentResult[r].setBy
                      /\ doneState[r][currentResult[r].setBy] = "finished"
          /\ (hpc[r] = "returned" /\ onSubgraphExecuteDoneHooks[r] # <<>>) =>
               /\ returned[r].res = currentResult[r]
               /\ returned[r].kind \in {"stream", "wrapped"} <=> currentResult[r].kind = "stream")
  /\ [][\A r \in Requests :
          /\ (hpc[r] = "indone" /\ hpc'[r] = "doned") =>
               \/ currentResult'[r] = currentResult[r]
               \/ /\ currentResult'[r].setBy = onSubgraphExecuteDoneHooks[r][hidx[r]]
                  /\ currentResult'[r].kind \in {"single", "stream"}
          /\ (hpc[r] = "doned" /\ hpc'[r] = "indone") =>
               /\ currentResult'[r] = currentResult[r]
               /\ payloadResult'[r] = currentResult[r]
          /\ hpc[r] \notin {"indone", "exec"} => currentResult'[r] = currentResult[r]]_vars

\* C39 witness: the first done hook replaced the executor's result, the
\* second done hook was called with the replacement and replaced it by a
\* stream, and the caller got the second replacement, as a stream.
C39_Witness ==
  \E r \in Requests :
    /\ hpc[r] = "returned"
    /\ Len(onSubgraphExecuteDoneHooks[r]) = 2
    /\ payloadResult[r].setBy = onSubgraphExecuteDoneHooks[r][1]
    /\ payloadResult[r].kind = "single"
    /\ currentResult[r].setBy = onSubgraphExecuteDoneHooks[r][2]
    /\ currentResult[r].kind = "stream"
    /\ returned[r].res = currentResult[r]
    /\ returned[r].kind \in {"stream", "wrapped"}

\* ============================================== claims under SpecPipeline
\* C4: once a request's result has been fully consumed or has errored -- a
\* single result when executorWithHooks has returned it, a stream when its
\* consumer has seen the end or the error -- every onEnd observer that a done
\* hook returned has been called exactly once.
C4_OnEndExactlyOnce ==
  \A r \in Requests :
    ( /\ hpc[r] = "returned"
      /\ \/ returned[r].kind = "single"
         \/ returned[r].kind = "wrapped" /\ wpc[r] = "idle" /\ consumerSaw[r] \in {"done", "error"}
    ) => onEndLog[r] = collectOnEnd(executeDoneResults[r])

\* =================================================== claims under SpecPre
\* C6: for every request one of whose pre-hooks has called setExecutor, a
\* pre-hook that is running was given, as its payload's executor, the executor
\* of the last setExecutor call made for that request, and the final executor
\* call was made on it.
C6_SetExecutorVisible ==
  \A r \in Requests :
    lastSetExecutor[r] # TransportExecutor =>
      /\ hpc[r] = "inhook" => payload[r].executor = lastSetExecutor[r]
      /\ called[r] # NoInvocation => called[r].executor = lastSetExecutor[r]

\* C7: for every request, a pre-hook that is running was given, as its
\* payload's executionRequest, the request of the last setExecutionRequest
\* call made for that request (the original request if there was none), and
\* the final executor call was made with it.
C7_SetExecutionRequestVisible ==
  \A r \in Requests :
    /\ hpc[r] = "inhook" => payload[r].executionRequest = lastSetRequest[r]
    /\ called[r] # NoInvocation => called[r].request = lastSetRequest[r]

\* C7 witness: two requests in flight whose first hooks have each replaced
\* the request; one has its second hook running with the replacement in its
\* payload, the other has called the executor with its own replacement.
C7_Witness ==
  \E r, q \in Requests :
    /\ r # q
    /\ hpc[r] = "inhook"
    /\ hidx[r] = 2
    /\ payload[r].executionRequest = Replaced(r, 1)
    /\ called[q] # NoInvocation
    /\ called[q].request.of = q
    /\ called[q].request.by >= 1

\* C33: setExecutor is per request: for every request, whether or not one of
\* its own pre-hooks has called setExecutor, a pre-hook that is running was
\* given as its payload's executor the executor last set within that request
\* (the transport executor if none was set), whatever the hooks of other
\* requests have set, and the final executor call was made on that executor.
C33_SetExecutorPerRequest ==
  \A r \in Requests :
    /\ hpc[r] = "inhook" =>
         /\ payload[r].executor = lastSetExecutor[r]
         /\ payload[r].executor \in {TransportExecutor} \cup {Fake(r, i) : i \in HookIds}
    /\ called[r] # NoInvocation =>
         /\ called[r].executor = lastSetExecutor[r]
         /\ called[r].executor \in {TransportExecutor} \cup {Fake(r, i) : i \in HookIds}

\* ================================================ claims under SpecStream
\* What the observers in `hooks`, applied in order, make of item `it`.
RECURSIVE passedThrough(_, _)
passedThrough(it, hooks) ==
  IF hooks = <<>> THEN it
  ELSE passedThrough(IF Head(hooks).onNext = "rewrite"
                       THEN rewriteBy(Head(hooks).hook, it) ELSE it,
                     Tail(hooks))

\* C8: what the consumer has received are items of the source, in the order
\* of the source, each as all onNext observers in registration order left
\* it; the observer that is running was given the item as the observers
\* before it left it, while that item has not been handed to the consumer
\* yet; and a consumer that has read to the end has received as many items as
\* the source yielded.
C8_OnNextInOrder ==
  \A r \in Requests :
    /\ \A i \in 1..Len(delivered[r]) :
         LET n == Head(delivered[r][i]) IN
         /\ n \in 1..srcPos[r]
         /\ delivered[r][i] = passedThrough(sourceItem(n), onNextHooks[r])
         /\ i > 1 => Head(delivered[r][i - 1]) < n
    /\ wpc[r] = "onNext" =>
         /\ itemPayload[r] = passedThrough(sourceItem(srcPos[r]),
                                           SubSeq(onNextHooks[r], 1, widx[r] - 1))
         /\ \A i \in 1..Len(delivered[r]) : Head(delivered[r][i]) < srcPos[r]
    /\ (consumerSaw[r] = "done" /\ wpc[r] = "idle") => Len(delivered[r]) = srcPos[r]

\* C8 witness: a stream with two rewriting observers has been read to the
\* end, and the consumer has received at least two items.
C8_Witness ==
  \E r \in Requests :
    /\ Len(onNextHooks[r]) >= 2
    /\ onNextHooks[r][1].onNext = "rewrite"
    /\ onNextHooks[r][2].onNext = "rewrite"
    /\ Len(delivered[r]) >= 2
    /\ delivered[r][2] = <<2, onNextHooks[r][1].hook, onNextHooks[r][2].hook>>
    /\ consumerSaw[r] = "done"

C30_ExecutorErrors ==
  \A r \in Requests :
    /\ execState[r] = "threw" =>
         /\ hpc[r] = "thrown"
         /\ returned[r] = [kind |-> "error", res |-> NoResult, err |-> "ExecutorError"]
         /\ \A h \in HookIds : doneState[r][h] \notin Started
         /\ executeDoneResults[r] = <<>>
    /\ hpc[r] = "indone" => payloadResult[r] = currentResult[r]
    /\ ( /\ execState[r] = "settled"
         /\ hpc[r] \in {"returned", "thrown"}
         /\ currentResult[r] = ResultOf("errors", called[r].executor, called[r].request) ) =>
         \A i \in 1..Len(onSubgraphExecuteDoneHooks[r]) :
           doneState[r][onSubgraphExecuteDoneHooks[r][i]] \in Started

\* C9: a next() call of a consumer that is reading the stream runs the onEnd
\* observers only when the source has ended and all its items have been
\* delivered; and once a consumer that read the stream to exhaustion has no
\* call pending, however many next() or return() calls it has made after the
\* end, each onEnd observer has run exactly once, in registration order.
C9_OnEndOnceAfterExhaustion ==
  \A r \in Requests :
    /\ (wpc[r] = "onEnd" /\ endPhase[r] = "next" /\ consumerSaw[r] = "open") =>
         srcStatus[r] = "ended" /\ Len(delivered[r]) = srcPos[r]
    /\ (consumerSaw[r] = "done" /\ wpc[r] = "idle") => onEndLog[r] = onEndHooks[r]

\* C10: once the consumer has been given the error of a source whose next()
\* rejected, each onEnd observer has run exactly once.
C10_OnEndOnStreamError ==
  \A r \in Requests :
    (srcStatus[r] = "errored" /\ consumerSaw[r] = "error" /\ wpc[r] = "idle") =>
      onEndLog[r] = onEndHooks[r]

\* C11: once a consumer that closed the stream before its end (its first
\* outcome came from return(), and it has made no call since) has its answer,
\* the underlying stream has been closed if it can be closed, and each onEnd
\* observer has run exactly once, in registration order.
C11_OnEndOnceOnAbandon ==
  \A r \in Requests :
    (consumerSaw[r] = "closed" /\ wpc[r] = "idle" /\ extraCalls[r] = 0) =>
      /\ srcHasReturn[r] => srcStatus[r] # "open"
      /\ onEndLog[r] = onEndHooks[r]

\* C12: once a request has ended with the error of a hook that threw (a
\* pre-hook or a done hook), every done hook that an earlier pre-hook of the
\* request queued has been called.
C12_QueuedDoneHooksCalledOnThrow ==
  \A r \in Requests :
    (hpc[r] = "thrown" /\ returned[r].err = "HookError") =>
      \A h \in RegisteredDone(r) : doneState[r][h] \in Started

\* What the model holds of request q, apart from the executor variable that
\* all requests share.
OfRequest(q) ==
  <<hpc[q], hidx[q], executionRequest[q], payload[q], pendingDone[q],
    onSubgraphExecuteDoneHooks[q], preState[q], execState[q], doneState[q],
    called[q], returned[q]>>

PreHookThrew(r) == \E h \in HookIds : preState[r][h] = "threw"

C14_LaterCallsGoToCache ==
  /\ [][\A c \in Calls :
          (pc[c] = "idle" /\ pc'[c] # "idle"
             /\ subgraphExecutorMap[sub'[c]].tag = "wrapped") =>
            /\ pc'[c] = "exec"
            /\ fwd'[c] = subgraphExecutorMap[sub'[c]].of
            /\ getterCalls' = getterCalls
            /\ factoryCalls' = factoryCalls
            /\ transportExecutorStack' = transportExecutorStack
            /\ subgraphExecutorMap' = subgraphExecutorMap]_vars
  /\ [][\A c \in Calls : pc[c] = "exec" => pc'[c] \in {"exec", "done"}]_vars

\* C14 witness: a call has been answered by the executor that another call's
\* initialisation cached.
C14_Witness ==
  \E c \in Calls :
    /\ pc[c] = "done"
    /\ fwd[c] \in Calls \ {c}
    /\ result[c] = <<"data", fwd[c], c>>

\* C15: a call that has been forwarded was forwarded to a transport executor
\* created for its subgraph, and a call that has its answer has the output
\* of that executor for its own request; a call is forwarded once (its target
\* is set once, on entering the executor), and once forwarded it only gets
\* its answer, which does not change afterwards.
C15_EachRequestAnsweredOnce ==
  /\ [](\A c \in Calls :
          /\ pc[c] \in {"exec", "done"} =>
               /\ fwd[c] \in Calls
               /\ created[fwd[c]] # "none"
               /\ sub[fwd[c]] = sub[c]
          /\ pc[c] = "done" => result[c] = <<"data", fwd[c], c>>)
  /\ [][\A c \in Calls :
          /\ fwd'[c] # fwd[c] => (fwd[c] = 0 /\ pc[c] # "exec" /\ pc'[c] = "exec")
          /\ pc[c] = "exec" => pc'[c] \in {"exec", "done"}
          /\ pc[c] = "done" => (pc'[c] = "done" /\ result'[c] = result[c])]_vars

\* C15 witness: two calls for the same subgraph that both ran the
\* initialisation (the second started before the first completed, none
\* failed) have each been answered for their own request.
C15_Witness ==
  \E c, d \in Calls :
    /\ c # d
    /\ sub[c] = sub[d]
    /\ FailedFor(sub[c]) = {}
    /\ pc[c] = "done" /\ fwd[c] = c /\ result[c] = <<"data", c, c>>
    /\ pc[d] = "done" /\ fwd[d] = d /\ result[d] = <<"data", d, d>>

\* The errors of the configuration kind: the transport kind cannot be
\* resolved, or the resolved module is misshaped.
ConfigurationErrors == {"NoTransportFound", "NoExport", "NotAFunction"}

ConfigurationFailure(c) ==
  /\ pc[c] = "failed"
  /\ result[c][1] = "error"
  /\ result[c][2] \in ConfigurationErrors

\* C28 as stated: when the first request to a subgraph fails with a
\* configuration error, the error is thrown before onSubgraphExecute returns
\* (the request fails in the step that started it), and afterwards the
\* subgraph has no entry in subgraphExecutorMap.
C28_ConfigErrorSyncAndCleared ==
  /\ [](\A c \in Calls :
          (ConfigurationFailure(c) /\ ~retried[c]) => subgraphExecutorMap[sub[c]] = Absent)
  /\ [][\A c \in Calls :
          (ConfigurationFailure(c)' /\ ~retried'[c] /\ pc[c] # "failed") => pc[c] = "idle"]_vars

\* C28 amended: a request that fails with a configuration error was
\* suspended on the factory getter when it failed (the error is the rejection
\* of the promise the request returned), the failure changes nothing in
\* subgraphExecutorMap, and afterwards the subgraph still has its entry, the
\* lazy placeholder or a wrapped executor.
C28_ConfigErrorAsyncAndKept ==
  /\ [](\A c \in Calls :
          ConfigurationFailure(c) => subgraphExecutorMap[sub[c]] \in {Lazy} \cup {Wrapped(d) : d \in Calls})
  /\ [][\A c \in Calls :
          (ConfigurationFailure(c)' /\ pc[c] # "failed") =>
             /\ pc[c] = "getter"
             /\ subgraphExecutorMap' = subgraphExecutorMap]_vars

\* C28 witness: the first request to a subgraph has failed because no
\* transport was found for its kind, and the subgraph's entry is the lazy
\* placeholder.
C28_Witness ==
  \E c \in Calls :
    /\ ConfigurationFailure(c)
    /\ ~retried[c]
    /\ result[c][2] = "NoTransportFound"
    /\ subgraphExecutorMap[sub[c]] = Lazy

\* ================================================== claims under SpecSwap
\* C36: every read of subgraph and of transportEntry, by a transport factory
\* from its context or by a pre-hook from its payload, returns the schema and
\* the entry of the supergraph that is current at the read, whatever they
\* were when the context or the payload was built; and a call that runs the
\* initialisation, a retry after a failure included, resolves the transport
\* of the kind the entry has when that call starts, so that its outcome is
\* the outcome for that kind.
C36_LateBoundGetters ==
  /\ [][lastRead' # lastRead =>
          /\ lastRead'.subgraph = <<HookedSubgraph, supergraphVersion>>
          /\ lastRead'.transportEntry = transportEntryMap[HookedSubgraph]]_vars
  /\ [][\A c \in Calls :
          (pc[c] = "idle" /\ pc'[c] = "getter") =>
            ctxKind'[c] = transportEntryMap[sub'[c]]]_vars
  /\ [](\A c \in Calls :
          /\ pc[c] \in {"factory", "wrap"} => ctxKind[c] = "http"
          /\ (pc[c] = "failed" /\ result[c] = <<"error", "NoTransportFound">>) =>
               ctxKind[c] = "ghost")

\* C36 witness: a call failed because the subgraph's kind had no transport,
\* the supergraph was replaced, a retry built the executor with the new kind,
\* and the factory then read the schema of the new supergraph.
C36_Witness ==
  \E c, d \in Calls :
    /\ pc[c] = "failed"
    /\ ctxKind[c] = "ghost"
    /\ retried[d]
    /\ pc[d] = "done"
    /\ ctxKind[d] = "http"
    /\ lastRead.by = "factory"
    /\ lastRead.subgraph = <<HookedSubgraph, supergraphVersion>>
    /\ supergraphVersion >= 1

\* ================================================ claims under SpecReload
\* C37: a merge of a subgraph whose SDL is the one the stored translation
\* was made from does not translate it again; a merge of a subgraph whose
\* SDL is another one, or which has no stored translation, translates it;
\* and the rewritten schema a merge uses is the translation of the SDL the
\* subgraph serves at that merge.
C37_TranslationCachedBySdl ==
  [][\A n \in SourceNames :
       merges'[n] # merges[n] =>
         /\ rewrittenFrom'[n] = sdlNow[n]
         /\ storedFrom[n] = sdlNow[n] => translations'[n] = translations[n]
         /\ storedFrom[n] # sdlNow[n] => translations'[n] = translations[n] + 1]_vars

\* ================================================== claims under SpecOtel
\* C40: a span is never ended twice; once onExecuteDone has run the
\* execution span has been ended, whatever the result was; and once the
\* resolver of a field has completed, the resolver span started for it has
\* been ended, whether the resolver gave a value or an Error.
C40_SpansEndedOnce ==
  /\ Len(executionSpan.ends) <= 1
  /\ opc = "done" => (executionSpan.started /\ Len(executionSpan.ends) = 1)
  /\ \A f \in Fields :
       /\ Len(resolverSpan[f].ends) <= 1
       /\ (rpc[f] = "resolved" /\ resolverSpan[f].started) =>
            Len(resolverSpan[f].ends) = 1

\* ================================================ claims under SpecGetter
\* The transport module that the call resolved: the inline one, else the
\* imported one.
ResolvedModule ==
  IF gInline # Undefined THEN gInline
  ELSE IF gImports # <<>> THEN importable[gKind]
  ELSE Undefined

\* C16: in every call of getTransport(kind), an inline function registry has
\* been called exactly once, with kind, and an inline mapping or an absent
\* inline source has caused no such call; the transport taken from the inline
\* source is what the registry or the mapping holds for kind; the
\* conventional module has been imported only if the inline source gave
\* nothing, at most once and for kind; and when the inline source gave a
\* transport nothing is imported and the outcome is that transport's
\* getSubgraphExecutor.  The outcome is the one getTransport computes.
C16_ResolutionOrder ==
  gpc # "idle" =>
    /\ gRegistryCalls = IF transports.form = "function" THEN <<gKind>> ELSE <<>>
    /\ gInline = IF transports.form = "undefined" THEN Undefined ELSE transports.at[gKind]
    /\ gImports \in {<<>>, <<gKind>>}
    /\ gImports # <<>> => gInline = Undefined
    /\ gInline # Undefined =>
         /\ gImports = <<>>
         /\ gpc = "done"
              => gOut = Ok(pickGetSubgraphExecutor(gInline))
    /\ gpc = "done" => gOut = getTransport(transports, importable, hasLogger, gKind)

\* C16 witness: an inline function registry gave a transport for a kind whose
\* conventional module could also be imported; the call is over without an
\* import.
C16_Witness ==
  /\ gpc = "done"
  /\ transports.form = "function"
  /\ gInline # Undefined
  /\ importable[gKind] # Undefined
  /\ gImports = <<>>
  /\ gOut = Ok("fn")

\* C17: a call of getTransport(kind) for which the inline source gave nothing
\* and the conventional module cannot be loaded ends with the
\* transport-not-found error, after trying the module named after kind.
C17_NotFoundError ==
  (gpc = "done" /\ gInline = Undefined /\ importable[gKind] = Undefined) =>
    /\ gOut = Err("NoTransportFound")
    /\ gImports = <<gKind>>

\* C18: a call of getTransport(kind) never ends with a value that is not a
\* callable getSubgraphExecutor: when the module it resolved does not expose
\* a callable getSubgraphExecutor in the form it is read in, the call ends
\* with a transport-misshaped error.
C18_MisshapedError ==
  gpc = "done" =>
    /\ gOut.ok => gOut.val = "fn"
    /\ (ResolvedModule # Undefined /\ pickGetSubgraphExecutor(ResolvedModule) # "fn")
         => gOut \in {Err("NoExport"), Err("NotAFunction")}

\* C19: a call of getTransport(kind) that resolved a module with a callable
\* top-level getSubgraphExecutor and no default member, or with a callable
\* getSubgraphExecutor under its default member, or with a callable top-level
\* getSubgraphExecutor and a default member that does not expose one, ends
\* with that function.
C19_BothModuleShapes ==
  LET m == ResolvedModule IN
  (gpc = "done" /\ m # Undefined) =>
    /\ (~m.hasDefault /\ m.top = "fn") => gOut = Ok("fn")
    /\ (m.hasDefault /\ m.def = "fn") => gOut = Ok("fn")
    /\ (m.hasDefault /\ m.def = "missing" /\ m.top = "fn") => gOut = Ok("fn")

\* C20: names that are equal under constant-case normalisation resolve the
\* same transportEntryMap entry and share one cache entry: a call made under
\* any such name works with the kind of the entry listed for the subgraph, and
\* at every moment the cache answers a lookup by one name as it answers a
\* lookup by the other.
C20_NamesShareEntry ==
  /\ \A c \in Calls : \A n \in DOMAIN transportEntryMap :
       (pc[c] # "idle" /\ compareSubgraphNames(sub[c], n))
         => kindOf(sub[c]) = transportEntryMap[n]
  /\ \A n1, n2 \in DOMAIN subgraphExecutorMap :
       compareSubgraphNames(n1, n2)
         => subgraphExecutorMap[n1] = subgraphExecutorMap[n2]

\* =============================================== claims under SpecCompare
\* The constant-case form of a name, stated without the normalisation: its
\* letters and digits with letters upper-cased, and the places among them
\* where a new word starts (after one or more separator characters, or at a
\* case boundary).
AlnumPositions(name) == {i \in 1..Len(name) : isAlnum(name[i])}

CaseBoundary(name, i) ==
  /\ i > 1
  /\ name[i] \in UpperChars
  /\ \/ name[i - 1] \in LowerChars \cup DigitChars
     \/ /\ name[i - 1] \in UpperChars
        /\ i < Len(name)
        /\ name[i + 1] \in LowerChars

WordStarts(name) ==
  {i \in AlnumPositions(name) :
     /\ \E j \in AlnumPositions(name) : j < i
     /\ ~isAlnum(name[i - 1]) \/ CaseBoundary(name, i)}

RankIn(name, i) == Cardinality({j \in AlnumPositions(name) : j <= i})

FormOf(name) ==
  [letters |-> {<<RankIn(name, i),
                  IF name[i] \in LowerChars THEN UpperOf[name[i]] ELSE name[i]>> :
                 i \in AlnumPositions(name)},
   starts |-> {RankIn(name, i) : i \in WordStarts(name)}]

\* C21: compareSubgraphNames(a, b) has returned true exactly when a and b
\* have the same constant-case form; it relates every name to itself, b to a
\* whenever a to b, and a to every name that b is related to whenever a is
\* related to b; the names written like MyApi, my_api and MY-API are related.
C21_CompareSubgraphNames ==
  cmpPc = "namesCompared" =>
    /\ cmpOut = (FormOf(cmpA) = FormOf(cmpB))
    /\ cmpA = cmpB => cmpOut
    /\ cmpOut = compareSubgraphNames(cmpB, cmpA)
    /\ \A c \in NameInputs :
         (cmpOut /\ compareSubgraphNames(cmpB, c)) => compareSubgraphNames(cmpA, c)
    /\ (cmpA \in {MyApi, my_api, MY_API} /\ cmpB \in {MyApi, my_api, MY_API}) => cmpOut

\* C21 witness: two spellings of one subgraph name were compared and found
\* equal.
C21_Witness ==
  /\ cmpPc = "namesCompared"
  /\ cmpA = MyApi
  /\ cmpB = MY_API
  /\ cmpOut

\* The canonical printed SDL of an input of any kind.
canonicalSdl(x) == SdlString(x.content, "canonical")

\* C22: compareSchemas(a, b) has returned true exactly when the canonical
\* printed SDL of a and of b are equal, whatever the kinds of a and b; so two
\* inputs that differ only in layout have compared equal.
C22_CompareSchemas ==
  cmpPc = "schemasCompared" => cmpOut = (canonicalSdl(cmpA) = canonicalSdl(cmpB))

\* ================================================ claims under SpecMerger
\* The merger has treated source n as federated: it went into
\* replaceFederationSDLWithStitchingSDL.
TreatedAsFederated(n) ==
  \/ mpc[n] \in {"fetching", "built", "failed"}
  \/ sdlFrom[n] # "none"
  \/ executorCalls[n] # <<>>
  \/ schema[n].rewritten

\* C23: a source whose map callback has run was treated as federated exactly
\* when its schema has a query type with a field _service; a source without a
\* query type was not; and only the schema of a source treated as federated
\* has been replaced.
C23_FederationDetection ==
  \A n \in rawSources :
    mpc[n] # "todo" =>
      /\ TreatedAsFederated(n) <=> (schema[n].hasQueryType /\ schema[n].hasService)
      /\ ~schema[n].hasQueryType => ~TreatedAsFederated(n)
      /\ schema[n].rewritten => (schema[n].hasQueryType /\ schema[n].hasService)

\* C23 witness: getUnifiedSchema returned after rewriting the schema of a
\* source with _service and leaving alone that of a source with a query type
\* without _service.
C23_Witness ==
  /\ upc = "returned"
  /\ \E n, m \in rawSources :
       /\ schema[n].hasService /\ schema[n].rewritten
       /\ schema[m].hasQueryType /\ ~schema[m].hasService /\ ~schema[m].rewritten

\* The SDL query of source n returned a non-empty errors list.
SdlErrors(n) ==
  \E i \in 1..Len(rejections) : rejections[i] = [name |-> n, error |-> AggregateError(n)]

\* C24 as stated: once the SDL query of a source has returned errors,
\* getUnifiedSchema does not return a schema, stitchSchemas is not called, and
\* the error getUnifiedSchema fails with is the aggregate error naming that
\* source.
C24_SdlErrorsFailNamingSubgraph ==
  \A n \in rawSources :
    SdlErrors(n) =>
      /\ upc \in {"running", "failed"}
      /\ stitchCalls = 0
      /\ upc = "failed" => unifiedError = AggregateError(n)

\* C24 amended: once the SDL fetch of a source has failed, getUnifiedSchema
\* does not return a schema and stitchSchemas is not called; the error
\* getUnifiedSchema fails with is that of the source whose fetch failed first,
\* and when that fetch returned an errors list it is the aggregate error
\* naming that source.
C24_FirstSdlFailureFails ==
  rejections # <<>> =>
    /\ upc \in {"running", "failed"}
    /\ stitchCalls = 0
    /\ subschemaMap = [n \in SourceNames |-> NoSchema]
    /\ upc = "failed" =>
         /\ unifiedError = rejections[1].error
         /\ SdlErrors(rejections[1].name) => unifiedError = AggregateError(rejections[1].name)

\* C24 witness: getUnifiedSchema failed with the aggregate error of the
\* source whose SDL query returned errors, while another source's rewrite
\* went through.
C24_Witness ==
  /\ upc = "failed"
  /\ \E n, m \in rawSources :
       /\ SdlErrors(n) /\ unifiedError = AggregateError(n)
       /\ mpc[m] = "done" /\ schema[m].rewritten

\* C25: the executor of a federated source with link metadata is never
\* called, and its SDL, when the merger obtained one, is the printed schema;
\* the SDL the merger obtained for a federated source without link metadata
\* is the answer to exactly one call of its executor, with the
\* __ApolloGetServiceDefinition__ query.  No other source's executor is called.
C25_SdlSource ==
  \A n \in SourceNames :
    /\ (n \in rawSources /\ isFederatedSchema(schema[n]) /\ schema[n].link) =>
         /\ executorCalls[n] = <<>>
         /\ sdlFrom[n] \in {"none", "printed", "store"}
    /\ (n \in rawSources /\ isFederatedSchema(schema[n]) /\ ~schema[n].link) =>
         /\ sdlFrom[n] \in {"none", "executor", "store"}
         /\ sdlFrom[n] = "executor" =>
              executorCalls[n] = <<APOLLO_GET_SERVICE_DEFINITION_QUERY>>
         /\ (mpc[n] \in {"built", "done"} /\ sdlFrom[n] # "store") => sdlFrom[n] = "executor"
    /\ (n \notin rawSources \/ ~isFederatedSchema(schema[n])) => executorCalls[n] = <<>>

\* C25 witness: one source was rewritten from its printed SDL and another
\* from the SDL its executor returned.
C25_Witness ==
  \E n, m \in rawSources :
    /\ schema[n].link /\ sdlFrom[n] = "printed" /\ schema[n].rewritten
    /\ ~schema[m].link /\ sdlFrom[m] = "executor" /\ schema[m].rewritten

\* C26: once every map callback has run, and so after getUnifiedSchema, a
\* source passed without batch has batch = true and a source passed with
\* batch = false still has it (as has one passed with true); when
\* getUnifiedSchema has returned, every source has its merge set from the
\* stitching-directives transformer, and stitchSchemas got them so.
C26_BatchAndMerge ==
  /\ (upc \in {"returned", "failed"}) =>
       \A n \in rawSources :
         /\ batchGiven[n] = "null" => batch[n] = "true"
         /\ batchGiven[n] # "null" => batch[n] = batchGiven[n]
  /\ upc = "returned" =>
       \A n \in rawSources :
         /\ merge[n] = "stitchingDirectives"
         /\ subschemaMap[n].merge = "stitchingDirectives"
         /\ subschemaMap[n].batch = batch[n]

\* C26 witness: getUnifiedSchema returned for a source passed without batch
\* and one that opted out.
C26_Witness ==
  /\ upc = "returned"
  /\ \E n, m \in rawSources : batchGiven[n] = "null" /\ batchGiven[m] = "false"

\* C27: sourceMap.get(rawSource) has returned, for a source that was passed
\* to the merge, the transformed schema of the subschema stitched under that
\* source's name, and undefined for a subgraph that was not passed.
C27_SourceMapGet ==
  \A n \in SourceNames :
    sourceMapGot[n] # NotAsked =>
      /\ upc = "returned"
      /\ n \in rawSources =>
           sourceMapGot[n] = <<"schema", n, subschemaMap[n].transformedSchema>>
      /\ n \notin rawSources => sourceMapGot[n] = <<"undefined">>

\* C27 witness: a merged source was looked up and its rewritten schema
\* returned, and a subgraph outside the merge was looked up and undefined
\* returned.
C27_Witness ==
  \E n, m \in SourceNames :
    /\ n \in rawSources
    /\ \E sch \in Schemas : sourceMapGot[n] = <<"schema", n, rewrittenSchema(sch)>>
    /\ m \notin rawSources /\ sourceMapGot[m] = <<"undefined">>

====
